---- MODULE Spec2Model ----
(***************************************************************************)
(* Layout engine of the shop-drawing generator (drawing_generator.py) and  *)
(* the BOM aggregation of the package generator (package_generator.py).    *)
(*                                                                         *)
(* Lengths that appear in geometry are integers counting twentieths of an  *)
(* inch, so that every constant of the source (0.75, 0.5, 2.5, 0.7 * L,    *)
(* w / 4, ...) is exact.  Panel widths and heights as they appear in the   *)
(* request and in texts stay in inches.  Quotients that are not multiples  *)
(* of 1/20 (the figure scale, BOM feet) are exact fractions <<num, den>>.  *)
(* Rasterisation (matplotlib, PNG, base64) is outside the model: a drawn   *)
(* figure is the ordered sequence of the primitives added to its axes.     *)
(***************************************************************************)
EXTENDS Integers, Sequences, FiniteSets, TLC

VARIABLES opening, op, panels, result, scene, project, all_bom_items, pc,
          stdin, stdout

vars == <<opening, op, panels, result, scene, project, all_bom_items, pc,
          stdin, stdout>>

(***************************************************************************)
(* Bounds of the model.                                                    *)
(***************************************************************************)
MaxPanels == 3
MaxBomOpenings == 2
MaxBomPanels == 2

(***************************************************************************)
(* Architectural conventions (inches).                                     *)
(***************************************************************************)
HANDLE_LENGTH == 6
DIM_LINE_OFFSET == 12
SWING_STILE == 4
SLIDING_LOCK_RAIL == 4
SLIDING_OUTER_STILE == 2
FIXED_HEADER == 5
FIXED_BOTTOM == 5
FIXED_STILE == 1
FIXED_TERMINATING_STILE == 4

\* twentieths of an inch in n inches
Inch(n) == 20 * n

\* GLASS_STOP = 0.5 inch, in twentieths
GLASS_STOP == 10

(***************************************************************************)
(* Python helpers: dict.get, sum, str.lower, substring test.               *)
(***************************************************************************)
\* an empty JSON object / dict
EmptyObj == <<>>

Get(d, k, default) == IF k \in DOMAIN d THEN d[k] ELSE default

Has(d, k) == k \in DOMAIN d

\* an exception that leaves the routine, with str(e)
Raised(msg) == [raised |-> TRUE, error |-> msg]

RECURSIVE SumSeq(_)
SumSeq(s) == IF Len(s) = 0 THEN 0 ELSE Head(s) + SumSeq(Tail(s))

RECURSIVE MaxSeq(_)
MaxSeq(s) == IF Len(s) = 1 THEN s[1]
             ELSE LET m == MaxSeq(Tail(s)) IN IF s[1] >= m THEN s[1] ELSE m

UpperToLower ==
    [A |-> "a", B |-> "b", C |-> "c", D |-> "d", E |-> "e", F |-> "f",
     G |-> "g", H |-> "h", I |-> "i", J |-> "j", K |-> "k", L |-> "l",
     M |-> "m", N |-> "n", O |-> "o", P |-> "p", Q |-> "q", R |-> "r",
     S |-> "s", T |-> "t", U |-> "u", V |-> "v", W |-> "w", X |-> "x",
     Y |-> "y", Z |-> "z"]

RECURSIVE Lower(_)
Lower(s) ==
    IF Len(s) = 0 THEN ""
    ELSE LET c == SubSeq(s, 1, 1)
         IN  (IF c \in DOMAIN UpperToLower THEN UpperToLower[c] ELSE c)
             \o Lower(SubSeq(s, 2, Len(s)))

\* needle in hay
Contains(hay, needle) ==
    \E i \in 1..(Len(hay) - Len(needle) + 1) :
        SubSeq(hay, i, i + Len(needle) - 1) = needle

\* exact fractions <<num, den>> with den > 0
FracLeq(a, b) == a[1] * b[2] <= b[1] * a[2]

FracEq(a, b) == a[1] * b[2] = b[1] * a[2]

FracMin(a, b) == IF FracLeq(a, b) THEN a ELSE b

FracTimes(n, a) == <<n * a[1], a[2]>>

(***************************************************************************)
(* Request data: the raw panels of the quoting tool.                       *)
(***************************************************************************)
HandleCategory ==
    [category |-> [id |-> 1, name |-> "Handle",
                   individualOptions |-> <<[id |-> 10, name |-> "Lever", price |-> 25],
                                           [id |-> 11, name |-> "Pull Bar", price |-> 40]>>]]

FinishCategory ==
    [category |-> [id |-> 2, name |-> "Finish",
                   individualOptions |-> <<[id |-> 20, name |-> "Bronze", price |-> 0]>>]]

\* a productSubOptions entry without its 'category' field
BrokenCategory == [categoryId |-> 2]

\* subOptionSelections is JSON text; json is what json.loads makes of it
\* ("object": a mapping, items its pairs in order; "array": a list;
\* "unparseable": a JSONDecodeError)
SelectionsObject(items) == [json |-> "object", items |-> items]

SelectionsUnparseable == [json |-> "unparseable"]

FrameBOM == [partName |-> "Frame", unit |-> "ft", formula |-> "Width * 2", cost |-> 3]

JambBOM == [partName |-> "Jamb", unit |-> "ft", formula |-> "height", cost |-> 2]

ScrewBOM == [partName |-> "Screw", quantity |-> 8, cost |-> 1]

GasketBOM == [partName |-> "Gasket", unit |-> "ea", formula |-> "perimeter"]

FrameKitBOM == [partName |-> "Frame", unit |-> "ea", quantity |-> 2, cost |-> 10]

RawFixed36 ==
    [id |-> 1, width |-> 36, height |-> 96, swingDirection |-> "Right In",
     slidingDirection |-> "Left",
     componentInstance |->
        [product |-> [productType |-> "FIXED_PANEL",
                      productBOMs |-> <<FrameBOM, JambBOM, FrameKitBOM>>]]]

RawBare == [id |-> 2]

RawOther30 ==
    [id |-> 3, width |-> 30, height |-> 12, glassType |-> "Tempered",
     componentInstance |-> [product |-> [productType |-> "GLASS_WALL"]]]

RawSwing30 ==
    [id |-> 4, width |-> 30, height |-> 96, swingDirection |-> "Left Out",
     slidingDirection |-> "Left",
     componentInstance |->
        [subOptionSelections |-> SelectionsObject(<<<<"1", 10>>, <<"2", 20>>, <<"3", 30>>>>),
         product |-> [productType |-> "SWING_DOOR",
                      productSubOptions |-> <<HandleCategory, FinishCategory>>,
                      productBOMs |-> <<FrameBOM, ScrewBOM>>]]]

RawSwing36 ==
    [id |-> 5, width |-> 36, height |-> 84,
     componentInstance |-> [subOptionSelections |-> SelectionsUnparseable,
                            product |-> [productType |-> "SWING_DOOR",
                                         productSubOptions |-> <<HandleCategory>>]]]

RawSliding48 ==
    [id |-> 6, width |-> 48, height |-> 96, swingDirection |-> "Right In",
     slidingDirection |-> "Right",
     componentInstance |->
        [subOptionSelections |-> SelectionsObject(<<<<"1", 12>>, <<"2", 20>>>>),
         product |-> [productType |-> "SLIDING_DOOR",
                      productSubOptions |-> <<FinishCategory, HandleCategory>>,
                      productBOMs |-> <<FrameBOM, GasketBOM>>]]]

RawSliding60 ==
    [id |-> 7, width |-> 60, height |-> 96,
     componentInstance |->
        [subOptionSelections |-> SelectionsObject(<<<<"1", 10>>, <<"2", 20>>>>),
         product |-> [productType |-> "SLIDING_DOOR",
                      productSubOptions |-> <<HandleCategory, BrokenCategory>>]]]

RawSliding8 ==
    [id |-> 8, width |-> 8, height |-> 96, slidingDirection |-> "Right",
     componentInstance |-> [product |-> [productType |-> "SLIDING_DOOR"]]]

RawCorner0 ==
    [id |-> 9, width |-> 0, height |-> 96,
     componentInstance |-> [product |-> [productType |-> "CORNER_90"]]]

\* a corner post: 12 wide on the plan, no height of its own
RawCorner12 ==
    [id |-> 10, width |-> 12, height |-> 0,
     componentInstance |-> [product |-> [productType |-> "CORNER_90"]]]

\* a panel record whose width is 0: nothing on the way rejects it
RawFixed0 ==
    [id |-> 11, width |-> 0, height |-> 96,
     componentInstance |-> [product |-> [productType |-> "FIXED_PANEL"]]]

RawPanels ==
    {RawFixed36, RawBare, RawOther30, RawSwing30, RawSwing36, RawSliding48,
     RawSliding60, RawSliding8, RawCorner0, RawCorner12, RawFixed0}

SeqsUpTo(S, n) == UNION {[1..k -> S] : k \in 0..n}

Openings == {[panels |-> ps] : ps \in SeqsUpTo(RawPanels, MaxPanels)}

BomPanels == {RawFixed36, RawSliding48}

Projects ==
    {[name |-> "Project", openings |-> os] :
        os \in SeqsUpTo({[panels |-> ps] : ps \in SeqsUpTo(BomPanels, MaxBomPanels)},
                        MaxBomOpenings)}

(***************************************************************************)
(* convert_quoting_tool_data                                               *)
(***************************************************************************)
ProductType(panel) ==
    Get(Get(Get(panel, "componentInstance", EmptyObj), "product", EmptyObj),
        "productType", "FIXED_PANEL")

PanelType_corner_as_fixed(product_type) ==
    IF product_type = "SWING_DOOR" THEN "Swing Door"
    ELSE IF product_type = "SLIDING_DOOR" THEN "Sliding Door"
    ELSE "Fixed"

PanelType(product_type) ==
    IF product_type = "SWING_DOOR" THEN "Swing Door"
    ELSE IF product_type = "SLIDING_DOOR" THEN "Sliding Door"
    ELSE IF product_type = "CORNER_90" THEN "Corner"
    ELSE "Fixed"

\* the first element of s among those at the indexes hits, as a sequence of
\* length <= 1 (a for loop that breaks at its first match)
FirstMatch(s, hits) ==
    IF hits = {} THEN <<>>
    ELSE <<s[CHOOSE i \in hits : \A j \in hits : i <= j]>>

\* the position in product_sub_options of the first entry whose category id
\* is category_id, 0 when the loop ends without one, and -1 when an entry
\* before it has no 'category' (the KeyError of pso['category'])
RECURSIVE FindCategory(_, _, _)
FindCategory(product_sub_options, category_id, k) ==
    IF k > Len(product_sub_options) THEN 0
    ELSE IF "category" \notin DOMAIN product_sub_options[k] THEN 0 - 1
    ELSE IF ToString(product_sub_options[k].category.id) = category_id THEN k
    ELSE FindCategory(product_sub_options, category_id, k + 1)

\* the line items one (category_id, option_id) pair resolves to
ResolveSelection(product_sub_options, category_id, option_id) ==
    LET k == FindCategory(product_sub_options, category_id, 1)
    IN  IF k < 0 THEN Raised("'category'")
        ELSE IF k = 0 THEN [raised |-> FALSE, items |-> <<>>]
        ELSE IF "individualOptions" \notin DOMAIN product_sub_options[k].category
        THEN Raised("'individualOptions'")
        ELSE LET category == product_sub_options[k].category
                 options == category.individualOptions
                 opt == FirstMatch(options,
                                   {i \in 1..Len(options) : options[i].id = option_id})
             IN  [raised |-> FALSE,
                  items |-> IF Len(opt) = 0 THEN <<>>
                            ELSE <<category.name \o ": " \o opt[1].name>>]

RECURSIVE ResolveSelections_stop_at_unknown(_, _, _)
ResolveSelections_stop_at_unknown(product_sub_options, selections, hardware_options) ==
    IF Len(selections) = 0 THEN [raised |-> FALSE, items |-> hardware_options]
    ELSE LET one == ResolveSelection(product_sub_options, selections[1][1],
                                     selections[1][2])
         IN  IF one.raised THEN one
             ELSE IF Len(one.items) = 0 THEN [raised |-> FALSE, items |-> hardware_options]
             ELSE ResolveSelections_stop_at_unknown(product_sub_options, Tail(selections),
                                                    hardware_options \o one.items)

\* the loop over selections.items(): hardware_options grows by the items of
\* each pair with a truthy option id; an exception ends the loop
RECURSIVE ResolveSelections(_, _, _)
ResolveSelections(product_sub_options, selections, hardware_options) ==
    IF Len(selections) = 0 THEN [raised |-> FALSE, items |-> hardware_options]
    ELSE IF selections[1][2] = 0
    THEN ResolveSelections(product_sub_options, Tail(selections), hardware_options)
    ELSE LET one == ResolveSelection(product_sub_options, selections[1][1],
                                     selections[1][2])
         IN  IF one.raised THEN one
             ELSE ResolveSelections(product_sub_options, Tail(selections),
                                    hardware_options \o one.items)

\* json.loads of the selections text, then .items() of the value
JsonItems(raw_selections) ==
    IF raw_selections.json = "object"
    THEN [raised |-> FALSE, items |-> raw_selections.items]
    ELSE IF raw_selections.json = "array"
    THEN Raised("'list' object has no attribute 'items'")
    ELSE Raised("Expecting value: line 1 column 1 (char 0)")

\* the try block: any exception leaves hardware_options empty
HardwareOptions(panel) ==
    LET component_instance == Get(panel, "componentInstance", EmptyObj)
        product == Get(component_instance, "product", EmptyObj)
    IN  IF "subOptionSelections" \notin DOMAIN component_instance THEN <<>>
        ELSE LET selections == JsonItems(component_instance.subOptionSelections)
                 resolved == IF selections.raised THEN selections
                             ELSE ResolveSelections(Get(product, "productSubOptions", <<>>),
                                                    selections.items, <<>>)
             IN  IF resolved.raised THEN <<>> ELSE resolved.items

ShopgenPanel(panel) ==
    [type |-> PanelType(ProductType(panel)),
     width |-> Get(panel, "width", 36),
     swing_direction |-> Get(panel, "swingDirection", "Right In"),
     sliding_direction |-> Get(panel, "slidingDirection", "Left"),
     corner_direction |-> Get(panel, "cornerDirection", "Up"),
     is_corner |-> Get(panel, "isCorner", FALSE),
     glass_type |-> Get(panel, "glassType", "Clear"),
     hardware_options |-> HardwareOptions(panel)]

RECURSIVE ConvertPanels(_)
ConvertPanels(raw) ==
    IF Len(raw) = 0 THEN <<>>
    ELSE <<ShopgenPanel(Head(raw))>> \o ConvertPanels(Tail(raw))

convert_quoting_tool_data(opening_data) ==
    ConvertPanels(Get(opening_data, "panels", <<>>))

(***************************************************************************)
(* draw_door_schedule                                                      *)
(***************************************************************************)
hardware_keywords ==
    <<"hardware", "locking", "hinge", "handle", "lockset", "track", "rollers",
      "lock", "closer", "panic", "exit", "door handle", "pull", "knob">>

\* the keywords compared with the text as written
IsHardwareOption_case_sensitive(option) ==
    \E k \in 1..Len(hardware_keywords) : Contains(option, hardware_keywords[k])

IsHardwareOption(option) ==
    \E k \in 1..Len(hardware_keywords) : Contains(Lower(option), hardware_keywords[k])

RECURSIVE Join(_, _)
Join(sep, items) ==
    IF Len(items) = 0 THEN ""
    ELSE IF Len(items) = 1 THEN items[1]
    ELSE items[1] \o sep \o Join(sep, Tail(items))

ScheduleDirection_swing_field(p) ==
    IF p.type \in {"Swing Door", "Sliding Door"} THEN p.swing_direction ELSE "-"

ScheduleDirection(p) ==
    IF p.type = "Swing Door" THEN p.swing_direction
    ELSE IF p.type = "Sliding Door" THEN p.sliding_direction
    ELSE "-"

ScheduleHardware(p) ==
    LET hardware_items == SelectSeq(Get(p, "hardware_options", <<>>), IsHardwareOption)
    IN  IF Len(hardware_items) = 0 THEN "-" ELSE Join(", ", hardware_items)

ScheduleRow(idx, p) ==
    <<ToString(idx), p.type, ToString(p.width), ScheduleDirection(p),
      Get(p, "glass_type", "Clear"), ScheduleHardware(p)>>

RECURSIVE ScheduleRows(_, _)
ScheduleRows(ps, idx) ==
    IF idx > Len(ps) THEN <<>>
    ELSE <<ScheduleRow(idx, ps[idx])>> \o ScheduleRows(ps, idx + 1)

draw_door_schedule(ps) ==
    [headers |-> <<"Panel #", "Type", "Width (in)", "Direction", "Glass", "Hardware">>,
     rows |-> ScheduleRows(ps, 1)]

(***************************************************************************)
(* Drawing primitives: what ax.add_patch, ax.plot, ax.text and ax.annotate *)
(* put on the axes.  An arrow runs from tail (xytext) to head (xy).        *)
(***************************************************************************)
Rect(role, panel, x, y, w, h) ==
    [kind |-> "rect", role |-> role, panel |-> panel, x |-> x, y |-> y, w |-> w, h |-> h]

Line(role, panel, x0, y0, x1, y1) ==
    [kind |-> "line", role |-> role, panel |-> panel,
     x0 |-> x0, y0 |-> y0, x1 |-> x1, y1 |-> y1]

Text(role, panel, x, y, text) ==
    [kind |-> "text", role |-> role, panel |-> panel, x |-> x, y |-> y, text |-> text]

Arrow(role, panel, headx, heady, tailx, taily, style) ==
    [kind |-> "arrow", role |-> role, panel |-> panel, headx |-> headx, heady |-> heady,
     tailx |-> tailx, taily |-> taily, style |-> style]

Circle(role, panel, x, y, r) ==
    [kind |-> "circle", role |-> role, panel |-> panel, x |-> x, y |-> y, r |-> r]

Arc(role, panel, x, y, r, theta1, theta2) ==
    [kind |-> "arc", role |-> role, panel |-> panel, x |-> x, y |-> y, r |-> r,
     theta1 |-> theta1, theta2 |-> theta2]

\* Rectangle((0, 0), w, h) rotated by angle degrees about the origin and
\* then translated to (x, y)
RotatedRect(role, panel, x, y, w, h, angle) ==
    [kind |-> "rotated-rect", role |-> role, panel |-> panel, x |-> x, y |-> y,
     w |-> w, h |-> h, angle |-> angle]

(***************************************************************************)
(* draw_architectural_elevation                                            *)
(***************************************************************************)
\* a fixed panel that keeps both stiles beside a sliding door
ElevFixed_never_hidden(ps, idx, px, pw, ph) ==
    LET left_stile == IF idx = 1 THEN FIXED_TERMINATING_STILE ELSE FIXED_STILE
        right_stile == IF idx = Len(ps) THEN FIXED_TERMINATING_STILE ELSE FIXED_STILE
    IN  <<Rect("left-stile", idx, px, 0, Inch(left_stile), ph),
          Rect("right-stile", idx, px + pw - Inch(right_stile), 0, Inch(right_stile), ph),
          Rect("top-rail", idx, px + Inch(left_stile), ph - Inch(FIXED_HEADER),
               pw - Inch(left_stile) - Inch(right_stile), Inch(FIXED_HEADER)),
          Rect("bottom-rail", idx, px + Inch(left_stile), 0,
               pw - Inch(left_stile) - Inch(right_stile), Inch(FIXED_BOTTOM)),
          Rect("glass-stop", idx, px + Inch(left_stile) + Inch(1),
               Inch(FIXED_BOTTOM) + Inch(1),
               pw - Inch(left_stile) - Inch(right_stile) - Inch(2),
               ph - Inch(FIXED_HEADER) - Inch(FIXED_BOTTOM) - Inch(2))>>

ElevFixed(ps, idx, px, pw, ph) ==
    LET left_stile == IF idx = 1 THEN FIXED_TERMINATING_STILE ELSE FIXED_STILE
        right_stile == IF idx = Len(ps) THEN FIXED_TERMINATING_STILE ELSE FIXED_STILE
        hide_left == idx > 1 /\ ps[idx - 1].type = "Sliding Door"
        hide_right == idx < Len(ps) /\ ps[idx + 1].type = "Sliding Door"
        left_stile_draw == IF hide_left THEN 0 ELSE Inch(left_stile)
        right_stile_draw == IF hide_right THEN 0 ELSE Inch(right_stile)
    IN  (IF hide_left THEN <<>>
         ELSE <<Rect("left-stile", idx, px, 0, Inch(left_stile), ph)>>)
        \o (IF hide_right THEN <<>>
            ELSE <<Rect("right-stile", idx, px + pw - Inch(right_stile), 0,
                        Inch(right_stile), ph)>>)
        \o <<Rect("top-rail", idx, px + left_stile_draw, ph - Inch(FIXED_HEADER),
                  pw - left_stile_draw - right_stile_draw, Inch(FIXED_HEADER)),
             Rect("bottom-rail", idx, px + left_stile_draw, 0,
                  pw - left_stile_draw - right_stile_draw, Inch(FIXED_BOTTOM)),
             Rect("glass-stop", idx, px + left_stile_draw + Inch(1),
                  Inch(FIXED_BOTTOM) + Inch(1),
                  pw - left_stile_draw - right_stile_draw - Inch(2),
                  ph - Inch(FIXED_HEADER) - Inch(FIXED_BOTTOM) - Inch(2))>>

ElevSwing(panel, idx, px, pw, ph) ==
    LET handle_y == ph \div 2
        handle_x == IF Contains(panel.swing_direction, "Left")
                    THEN px + pw - Inch(SWING_STILE) - Inch(HANDLE_LENGTH)
                    ELSE px + Inch(SWING_STILE)
    IN  <<Rect("left-stile", idx, px, 0, Inch(SWING_STILE), ph),
          Rect("right-stile", idx, px + pw - Inch(SWING_STILE), 0, Inch(SWING_STILE), ph),
          Rect("top-rail", idx, px + Inch(SWING_STILE), ph - Inch(5),
               pw - 2 * Inch(SWING_STILE), Inch(5)),
          Rect("bottom-rail", idx, px + Inch(SWING_STILE), 0,
               pw - 2 * Inch(SWING_STILE), Inch(10)),
          Rect("glass-stop", idx, px + Inch(SWING_STILE) + Inch(1), Inch(10) + Inch(1),
               pw - 2 * Inch(SWING_STILE) - Inch(2), ph - Inch(5) - Inch(10) - Inch(2)),
          Line("handle", idx, handle_x, handle_y, handle_x + Inch(HANDLE_LENGTH), handle_y)>>

ElevSliding(panel, idx, px, pw, ph) ==
    LET slide_left == panel.sliding_direction = "Left"
        outer_x == IF slide_left THEN px ELSE px + pw - Inch(SLIDING_OUTER_STILE)
        lock_x == IF slide_left THEN px + pw - Inch(SLIDING_LOCK_RAIL) ELSE px
        rail_x0 == IF slide_left THEN px + Inch(SLIDING_OUTER_STILE)
                   ELSE px + Inch(SLIDING_LOCK_RAIL)
        rail_x1 == IF slide_left THEN px + pw - Inch(SLIDING_LOCK_RAIL)
                   ELSE px + pw - Inch(SLIDING_OUTER_STILE)
        handle_height == (ph * 3) \div 10
        handle_y0 == (ph - handle_height) \div 2
        handle_x == lock_x + Inch(SLIDING_LOCK_RAIL) \div 2 - 10
        arrow_y == ph - GLASS_STOP - Inch(2)
    IN  <<Rect("outer-stile", idx, outer_x, 0, Inch(SLIDING_OUTER_STILE), ph),
          Rect("lock-stile", idx, lock_x, 0, Inch(SLIDING_LOCK_RAIL), ph),
          Rect("top-rail", idx, rail_x0, ph - Inch(5), rail_x1 - rail_x0, Inch(5)),
          Rect("bottom-rail", idx, rail_x0, 0, rail_x1 - rail_x0, Inch(5)),
          Rect("glass-stop", idx, rail_x0 + Inch(1), Inch(5) + Inch(1),
               rail_x1 - rail_x0 - Inch(2), ph - Inch(5) - Inch(5) - Inch(2)),
          Line("handle", idx, handle_x, handle_y0, handle_x, handle_y0 + handle_height),
          Rect("track", idx, px, ph - GLASS_STOP, pw, GLASS_STOP),
          IF slide_left
          THEN Arrow("direction-arrow", idx, px + Inch(5), arrow_y,
                     px + pw - Inch(10), arrow_y, "->")
          ELSE Arrow("direction-arrow", idx, px + pw - Inch(5), arrow_y,
                     px + Inch(10), arrow_y, "->")>>

ElevPanel(ps, idx, x, height) ==
    LET panel == ps[idx]
        pw == Inch(panel.width)
        ph == Inch(height)
    IN  <<Text("panel-label", idx, x + pw \div 2, ph + Inch(6), ToString(idx))>>
        \o (IF panel.type = "Fixed" THEN ElevFixed(ps, idx, x, pw, ph)
            ELSE IF panel.type = "Swing Door" THEN ElevSwing(panel, idx, x, pw, ph)
            ELSE IF panel.type = "Sliding Door" THEN ElevSliding(panel, idx, x, pw, ph)
            ELSE <<>>)

\* the offset does not advance past a Corner panel
RECURSIVE ElevPanels_corner_takes_no_room(_, _, _, _)
ElevPanels_corner_takes_no_room(ps, idx, x, height) ==
    IF idx > Len(ps) THEN <<>>
    ELSE ElevPanel(ps, idx, x, height)
         \o ElevPanels_corner_takes_no_room(ps, idx + 1,
                IF ps[idx].type = "Corner" THEN x ELSE x + Inch(ps[idx].width), height)

RECURSIVE ElevPanels(_, _, _, _)
ElevPanels(ps, idx, x, height) ==
    IF idx > Len(ps) THEN <<>>
    ELSE ElevPanel(ps, idx, x, height)
         \o ElevPanels(ps, idx + 1, x + Inch(ps[idx].width), height)

ElevAnnotations(total_width, height) ==
    LET tw == Inch(total_width)
        ph == Inch(height)
    IN  <<Text("glass-label", 0, tw \div 2, 0 - Inch(18), "CLEAR GLASS"),
          Arrow("overall-width-dim", 0, 0, ph + Inch(DIM_LINE_OFFSET),
                tw, ph + Inch(DIM_LINE_OFFSET), "<->"),
          Text("overall-width-text", 0, tw \div 2, ph + Inch(DIM_LINE_OFFSET) + Inch(3),
               ToString(total_width) \o "\""),
          Arrow("height-dim", 0, 0 - Inch(7), 0, 0 - Inch(7), ph, "<->"),
          Text("height-text", 0, 0 - Inch(10), ph \div 2, ToString(height) \o "\"")>>

Widths(ps) == [i \in 1..Len(ps) |-> ps[i].width]

FracMax(a, b) == IF FracLeq(b, a) THEN a ELSE b

ElevationScale_largest(total_width, height) == FracMax(<<12, total_width>>, <<6, height>>)

ElevationScale(total_width, height) == FracMin(<<12, total_width>>, <<6, height>>)

ElevationFigsize(total_width, height) ==
    LET scale == ElevationScale(total_width, height)
    IN  [fig_width |-> FracTimes(total_width, scale),
         fig_height |-> FracTimes(height, scale)]

\* an elevation that refuses any panel of width 0
draw_architectural_elevation_reject_zero_panel(ps, height) ==
    LET total_width == SumSeq(Widths(ps))
    IN  IF height = 0 \/ \E i \in 1..Len(ps) : ps[i].width = 0
        THEN Raised("division by zero")
        ELSE [raised |-> FALSE,
              figsize |-> ElevationFigsize(total_width, height),
              prims |-> ElevPanels(ps, 1, 0, height)
                        \o ElevAnnotations(total_width, height),
              total_width |-> total_width]

draw_architectural_elevation(ps, height) ==
    LET total_width == SumSeq(Widths(ps))
    IN  IF total_width = 0 \/ height = 0 THEN Raised("division by zero")
        ELSE [raised |-> FALSE,
              figsize |-> ElevationFigsize(total_width, height),
              prims |-> ElevPanels(ps, 1, 0, height)
                        \o ElevAnnotations(total_width, height),
              total_width |-> total_width]

(***************************************************************************)
(* draw_miniature_elevation                                                *)
(***************************************************************************)
\* MINI_STILE = 0.5 and MINI_RAIL = 1.0 inch, in twentieths
MiniStile == Inch(1) \div 2

MiniRail == Inch(1)

MiniPanel(panel, idx, px, ph) ==
    LET pw == Inch(panel.width)
        eighth == pw \div 8
        glass_inset == IF MiniStile <= eighth THEN MiniStile ELSE eighth
    IN  IF panel.type = "Fixed"
        THEN <<Rect("frame", idx, px, 0, pw, ph),
               Rect("glass", idx, px + glass_inset, MiniRail,
                    pw - 2 * glass_inset, ph - 2 * MiniRail)>>
        ELSE IF panel.type \in {"Swing Door", "Sliding Door"}
        THEN <<Rect("frame", idx, px, 0, pw, ph),
               Rect("top-rail", idx, px + MiniStile, ph - MiniRail,
                    pw - 2 * MiniStile, MiniRail),
               Rect("bottom-rail", idx, px + MiniStile, 0, pw - 2 * MiniStile, MiniRail),
               Rect("glass", idx, px + MiniStile, MiniRail,
                    pw - 2 * MiniStile, ph - 2 * MiniRail)>>
        ELSE <<>>

RECURSIVE MiniPanels(_, _, _, _)
MiniPanels(ps, idx, x, height) ==
    IF idx > Len(ps) THEN <<>>
    ELSE MiniPanel(ps[idx], idx, x, Inch(height))
         \o MiniPanels(ps, idx + 1, x + Inch(ps[idx].width), height)

draw_miniature_elevation(ps, height) ==
    LET total_width == SumSeq(Widths(ps))
    IN  [raised |-> FALSE,
         figsize |-> [fig_width |-> FracMin(<<4, 1>>, FracMax(<<2, 1>>, <<total_width, 30>>)),
                      fig_height |-> FracMin(<<3, 1>>, FracMax(<<3, 2>>, <<height, 40>>))],
         prims |-> MiniPanels(ps, 1, 0, height),
         total_width |-> total_width]

(***************************************************************************)
(* generate_elevation_drawing                                              *)
(***************************************************************************)
OpeningHeight(opening_data) ==
    LET raw == Get(opening_data, "panels", <<>>)
    IN  IF Len(raw) > 0
        THEN MaxSeq([i \in 1..Len(raw) |-> Get(raw[i], "height", 96)])
        ELSE 96

\* the handler's outcome: the result object it returns and the figure it drew
generate_elevation_drawing(opening_data, is_miniature) ==
    LET ps == convert_quoting_tool_data(opening_data)
        height == OpeningHeight(opening_data)
        drawn == IF is_miniature THEN draw_miniature_elevation(ps, height)
                 ELSE draw_architectural_elevation(ps, height)
    IN  IF drawn.raised
        THEN [panels |-> ps, scene |-> <<>>,
              result |-> [success |-> FALSE, error |-> drawn.error]]
        ELSE [panels |-> ps, scene |-> drawn.prims,
              result |-> [success |-> TRUE,
                          elevation_image |-> [figsize |-> drawn.figsize,
                                               dpi |-> IF is_miniature THEN 150 ELSE 300],
                          door_schedule |-> draw_door_schedule(ps),
                          total_width |-> drawn.total_width,
                          height |-> height]]

(***************************************************************************)
(* Plan (top-down) view.  Defaults of the draw_topdown_* parameters, in    *)
(* inches; sequence indexes are 1-based here and 0-based in the source.    *)
(* The hatch strokes that fill a wall-extension stub are not primitives of *)
(* the model; the stub rectangle is.                                       *)
(***************************************************************************)
wall_thickness == 8
frame_depth == 3
door_thickness == 2
wall_ext == 20

\* frame_lines = [0, 0.75, 1.5], in twentieths
frame_lines == <<0, 15, 30>>

CosDeg(a) == IF a = 0 THEN 1 ELSE IF a = 180 THEN 0 - 1 ELSE 0

SinDeg(a) == IF a = 90 THEN 1 ELSE IF a = 270 THEN 0 - 1 ELSE 0

WithSeg(prims, seg) == [i \in 1..Len(prims) |-> prims[i] @@ [seg |-> seg]]

\* ---- horizontal wall: the panel loop of draw_topdown_swing_fixed,
\* draw_topdown_sliding_fixed, draw_horizontal_wall_segment and
\* draw_horizontal_sliding_segment
HWallEnds(idx, n, left, right, wall_bot_y) ==
    (IF idx = 1
     THEN <<Line("wall-end", idx, left, wall_bot_y, left, wall_bot_y + Inch(wall_thickness))>>
     ELSE <<>>)
    \o (IF idx = n
        THEN <<Line("wall-end", idx, right, wall_bot_y, right,
                    wall_bot_y + Inch(wall_thickness))>>
        ELSE <<>>)

HFixed(idx, left, right, wall_y, wall_bot_y, fixed_panel_count) ==
    LET gap == Inch(2)
        cx == (left + right) \div 2
    IN  <<Line("glass-line", idx, left, wall_y + gap, right, wall_y + gap),
          Line("glass-centre-line", idx, left, wall_y, right, wall_y),
          Line("glass-line", idx, left, wall_y - gap, right, wall_y - gap),
          Line("division", idx, left, wall_bot_y, left, wall_bot_y + Inch(wall_thickness)),
          Line("division", idx, right, wall_bot_y, right, wall_bot_y + Inch(wall_thickness)),
          Circle("marker-fill", idx, cx, wall_y, Inch(3)),
          Circle("marker", idx, cx, wall_y, Inch(3)),
          Text("marker-label", idx, cx, wall_y, "F" \o ToString(fixed_panel_count))>>

HJambs(idx, left, right, wall_bot_y) ==
    LET J(k) == <<Line("jamb", idx, left + frame_lines[k], wall_bot_y,
                       left + frame_lines[k], wall_bot_y + Inch(wall_thickness)),
                  Line("jamb", idx, right - frame_lines[k], wall_bot_y,
                       right - frame_lines[k], wall_bot_y + Inch(wall_thickness))>>
    IN  J(1) \o J(2) \o J(3)

SwingHingeX_exact_left(left, right, door_swing) ==
    IF door_swing = "Left" THEN left + Inch(frame_depth) ELSE right - Inch(frame_depth)

SwingHingeX(left, right, door_swing) ==
    IF Contains(door_swing, "Left") THEN left + Inch(frame_depth)
    ELSE right - Inch(frame_depth)

HSwingDoor(idx, left, right, w, wall_y, wall_bot_y, door_swing) ==
    LET is_left == Contains(door_swing, "Left")
        hinge_x == SwingHingeX(left, right, door_swing)
        door_angle == 90
        hinge_y == wall_y
        door_length == w - 2 * Inch(frame_depth)
        arc_radius == door_length
        arc_tip_angle == IF is_left THEN 90 ELSE 180
        arrow_x == hinge_x + arc_radius * CosDeg(arc_tip_angle)
        arrow_y == hinge_y + arc_radius * SinDeg(arc_tip_angle)
    IN  <<Rect("opening-clear", idx, left, wall_bot_y, w, Inch(wall_thickness))>>
        \o HJambs(idx, left, right, wall_bot_y)
        \o <<RotatedRect("door-leaf", idx, hinge_x, hinge_y, door_length,
                         Inch(door_thickness), door_angle),
             Circle("hinge", idx, hinge_x, hinge_y, 14),
             IF is_left THEN Arc("swing-arc", idx, hinge_x, hinge_y, arc_radius, 0, 90)
             ELSE Arc("swing-arc", idx, hinge_x, hinge_y, arc_radius, 90, 180),
             Arrow("arc-arrow", idx, arrow_x, arrow_y, arrow_x - Inch(7), arrow_y - Inch(7), "->"),
             Circle("hinge-hardware", idx, hinge_x, hinge_y, 8),
             Circle("hinge-hardware", idx, hinge_x, hinge_y, 4)>>

SlidingPanelX_half_open(left, right, door_length, door_sliding) ==
    IF door_sliding = "Left"
    THEN left + Inch(frame_depth) - (door_length * 5) \div 10
    ELSE right - Inch(frame_depth) - (door_length * 5) \div 10

\* the leaf covering 70% of its own clear span
SlidingPanelX_over_own_span(left, right, door_length, door_sliding) ==
    IF door_sliding = "Left"
    THEN left + Inch(frame_depth) - (door_length * 3) \div 10
    ELSE right - Inch(frame_depth) - (door_length * 7) \div 10

SlidingPanelX(left, right, door_length, door_sliding) ==
    IF door_sliding = "Left"
    THEN left + Inch(frame_depth) - (door_length * 7) \div 10
    ELSE right - Inch(frame_depth) - (door_length * 3) \div 10

HSlidingDoor(idx, left, right, w, wall_y, wall_bot_y, door_sliding) ==
    LET door_length == w - 2 * Inch(frame_depth)
        panel_y == wall_y + Inch(wall_thickness) \div 2 + Inch(2)
        panel_x == SlidingPanelX(left, right, door_length, door_sliding)
        arrow_start_x == left + w \div 2
        arrow_end_x == IF door_sliding = "Left" THEN left + w \div 4
                       ELSE left + (3 * w) \div 4
        track_y1 == wall_bot_y + Inch(wall_thickness) - 10
        track_y2 == wall_bot_y + 10
    IN  <<Rect("opening-clear", idx, left, wall_bot_y, w, Inch(wall_thickness))>>
        \o HJambs(idx, left, right, wall_bot_y)
        \o <<Rect("sliding-leaf", idx, panel_x, panel_y, door_length, Inch(door_thickness)),
             Line("track", idx, left + Inch(frame_depth), track_y1,
                  right - Inch(frame_depth), track_y1),
             Line("track", idx, left + Inch(frame_depth), track_y2,
                  right - Inch(frame_depth), track_y2),
             Arrow("direction-arrow", idx, arrow_end_x, wall_y, arrow_start_x, wall_y, "->")>>

\* door_type is the panel type the routine has a branch for besides Fixed
RECURSIVE HPanels(_, _, _, _, _, _, _, _)
HPanels(widths, panel_types, idx, x, fixed_panel_count, wall_y, door_type, door_dir) ==
    IF idx > Len(widths) \/ idx > Len(panel_types) THEN <<>>
    ELSE LET w == Inch(widths[idx])
             ptype == panel_types[idx]
             left == x
             right == x + w
             wall_bot_y == wall_y - Inch(wall_thickness) \div 2
             count == IF ptype = "Fixed" THEN fixed_panel_count + 1 ELSE fixed_panel_count
         IN  HWallEnds(idx, Len(panel_types), left, right, wall_bot_y)
             \o (IF ptype = "Fixed" THEN HFixed(idx, left, right, wall_y, wall_bot_y, count)
                 ELSE IF ptype = door_type /\ door_type = "Swing Door"
                 THEN HSwingDoor(idx, left, right, w, wall_y, wall_bot_y, door_dir)
                 ELSE IF ptype = door_type /\ door_type = "Sliding Door"
                 THEN HSlidingDoor(idx, left, right, w, wall_y, wall_bot_y, door_dir)
                 ELSE <<>>)
             \o HPanels(widths, panel_types, idx + 1, x + w, count, wall_y,
                        door_type, door_dir)

HWallExtensions_both_ends(wall_x0, wall_x1, wall_bot_y, draw_left_ext, draw_right_ext) ==
    <<Rect("wall-ext", 0, wall_x0 - Inch(wall_ext), wall_bot_y,
           Inch(wall_ext), Inch(wall_thickness)),
      Rect("wall-ext", 0, wall_x1, wall_bot_y, Inch(wall_ext), Inch(wall_thickness))>>

HWallExtensions(wall_x0, wall_x1, wall_bot_y, draw_left_ext, draw_right_ext) ==
    (IF draw_left_ext
     THEN <<Rect("wall-ext", 0, wall_x0 - Inch(wall_ext), wall_bot_y,
                 Inch(wall_ext), Inch(wall_thickness))>>
     ELSE <<>>)
    \o (IF draw_right_ext
        THEN <<Rect("wall-ext", 0, wall_x1, wall_bot_y, Inch(wall_ext), Inch(wall_thickness))>>
        ELSE <<>>)

\* the per-panel dimension lines below a horizontal wall
RECURSIVE HDimensions(_, _, _, _)
HDimensions(widths, idx, x, dim_y) ==
    IF idx > Len(widths) THEN <<>>
    ELSE LET w == Inch(widths[idx])
         IN  <<Arrow("panel-dim", idx, x, dim_y, x + w, dim_y, "<->"),
               Text("panel-dim-text", idx, x + w \div 2, dim_y - Inch(2),
                    ToString(widths[idx]) \o "\"")>>
             \o HDimensions(widths, idx + 1, x + w, dim_y)

(***************************************************************************)
(* draw_topdown_swing_fixed, draw_topdown_sliding_fixed                    *)
(***************************************************************************)
draw_topdown_swing_fixed(widths, door_idx, door_swing, panel_types) ==
    LET total_width == Inch(SumSeq(widths))
        wall_y == 0
        wall_x0 == 0
        wall_x1 == total_width
        wall_bot_y == wall_y - Inch(wall_thickness) \div 2
        hall_below == Contains(door_swing, "Left")
    IN  WithSeg(
          HWallExtensions(wall_x0, wall_x1, wall_bot_y, TRUE, TRUE)
          \o HPanels(widths, panel_types, 1, 0, 0, wall_y, "Swing Door", door_swing)
          \o HDimensions(widths, 1, 0, wall_bot_y - Inch(10))
          \o <<Text("room-label", 0, wall_x0 - Inch(wall_ext) + Inch(10),
                    IF hall_below THEN wall_bot_y - Inch(20)
                    ELSE wall_bot_y + Inch(wall_thickness) + Inch(30), "HALL"),
               Text("room-label", 0, wall_x1 + Inch(wall_ext) - Inch(10),
                    IF hall_below THEN wall_bot_y + Inch(wall_thickness) + Inch(30)
                    ELSE wall_bot_y - Inch(20), "OFFICE")>>,
          "wall")

draw_topdown_sliding_fixed(widths, door_idx, door_sliding, panel_types) ==
    LET total_width == Inch(SumSeq(widths))
        wall_y == 0
        wall_x0 == 0
        wall_x1 == total_width
        wall_bot_y == wall_y - Inch(wall_thickness) \div 2
    IN  WithSeg(
          HWallExtensions(wall_x0, wall_x1, wall_bot_y, TRUE, TRUE)
          \o HPanels(widths, panel_types, 1, 0, 0, wall_y, "Sliding Door", door_sliding)
          \o HDimensions(widths, 1, 0, wall_bot_y - Inch(10))
          \o <<Text("room-label", 0, wall_x0 - Inch(wall_ext) + Inch(10),
                    wall_bot_y + Inch(wall_thickness) + Inch(30), "HALL"),
               Text("room-label", 0, wall_x1 + Inch(wall_ext) - Inch(10),
                    wall_bot_y - Inch(20), "OFFICE")>>,
          "wall")

(***************************************************************************)
(* draw_horizontal_wall_segment, draw_horizontal_sliding_segment           *)
(* (start_x, start_y in twentieths; door_idx is accepted and never read)   *)
(***************************************************************************)
HSegment(widths, panel_types, start_x, start_y, door_type, door_dir, draw_left_ext, draw_right_ext) ==
    IF Len(widths) = 0 THEN <<>>
    ELSE LET wall_x0 == start_x
             wall_x1 == start_x + Inch(SumSeq(widths))
             wall_bot_y == start_y - Inch(wall_thickness) \div 2
         IN  HWallExtensions(wall_x0, wall_x1, wall_bot_y, draw_left_ext, draw_right_ext)
             \o HPanels(widths, panel_types, 1, wall_x0, 0, start_y, door_type, door_dir)

draw_horizontal_wall_segment(widths, panel_types, start_x, start_y, door_idx, door_swing, draw_left_ext, draw_right_ext) ==
    HSegment(widths, panel_types, start_x, start_y, "Swing Door", door_swing,
             draw_left_ext, draw_right_ext)

draw_horizontal_sliding_segment(widths, panel_types, start_x, start_y, door_idx, door_sliding, draw_left_ext, draw_right_ext) ==
    HSegment(widths, panel_types, start_x, start_y, "Sliding Door", door_sliding,
             draw_left_ext, draw_right_ext)

(***************************************************************************)
(* draw_vertical_wall_segment, draw_vertical_sliding_segment               *)
(***************************************************************************)
VWallEnds(idx, n, bottom, top, wall_left_x) ==
    (IF idx = 1
     THEN <<Line("wall-end", idx, wall_left_x, bottom,
                 wall_left_x + Inch(wall_thickness), bottom)>>
     ELSE <<>>)
    \o (IF idx = n
        THEN <<Line("wall-end", idx, wall_left_x, top,
                    wall_left_x + Inch(wall_thickness), top)>>
        ELSE <<>>)

VFixed(idx, bottom, top, wall_x, wall_left_x, fixed_panel_count) ==
    LET gap == Inch(2)
        cy == (bottom + top) \div 2
    IN  <<Line("glass-line", idx, wall_x - gap, bottom, wall_x - gap, top),
          Line("glass-centre-line", idx, wall_x, bottom, wall_x, top),
          Line("glass-line", idx, wall_x + gap, bottom, wall_x + gap, top),
          Line("division", idx, wall_left_x, bottom, wall_left_x + Inch(wall_thickness), bottom),
          Line("division", idx, wall_left_x, top, wall_left_x + Inch(wall_thickness), top),
          Circle("marker-fill", idx, wall_x, cy, Inch(3)),
          Circle("marker", idx, wall_x, cy, Inch(3)),
          Text("marker-label", idx, wall_x, cy, "F" \o ToString(fixed_panel_count))>>

VJambs(idx, bottom, top, wall_left_x) ==
    LET J(k) == <<Line("jamb", idx, wall_left_x, bottom + frame_lines[k],
                       wall_left_x + Inch(wall_thickness), bottom + frame_lines[k]),
                  Line("jamb", idx, wall_left_x, top - frame_lines[k],
                       wall_left_x + Inch(wall_thickness), top - frame_lines[k])>>
    IN  J(1) \o J(2) \o J(3)

VSwingDoor(idx, bottom, top, w, wall_x, wall_left_x, door_swing) ==
    LET is_left == Contains(door_swing, "Left")
        hinge_y == IF is_left THEN bottom + Inch(frame_depth) ELSE top - Inch(frame_depth)
        door_angle == IF is_left THEN 0 ELSE 180
        hinge_x == wall_x
        door_length == w - 2 * Inch(frame_depth)
        arc_radius == door_length
        arc_tip_angle == IF is_left THEN 0 ELSE 270
        arrow_x == hinge_x + arc_radius * CosDeg(arc_tip_angle)
        arrow_y == hinge_y + arc_radius * SinDeg(arc_tip_angle)
    IN  <<Rect("opening-clear", idx, wall_left_x, bottom, Inch(wall_thickness), w)>>
        \o VJambs(idx, bottom, top, wall_left_x)
        \o <<RotatedRect("door-leaf", idx, hinge_x, hinge_y, Inch(door_thickness),
                         door_length, door_angle),
             Circle("hinge", idx, hinge_x, hinge_y, 14),
             IF is_left THEN Arc("swing-arc", idx, hinge_x, hinge_y, arc_radius, 270, 360)
             ELSE Arc("swing-arc", idx, hinge_x, hinge_y, arc_radius, 180, 270),
             Arrow("arc-arrow", idx, arrow_x, arrow_y, arrow_x - Inch(7), arrow_y + Inch(7), "->"),
             Circle("hinge-hardware", idx, hinge_x, hinge_y, 8),
             Circle("hinge-hardware", idx, hinge_x, hinge_y, 4)>>

VSlidingDoor(idx, bottom, top, w, wall_x, wall_left_x, door_sliding) ==
    LET door_length == w - 2 * Inch(frame_depth)
        panel_x == wall_x + Inch(wall_thickness) \div 2 + Inch(2)
        panel_y == IF door_sliding = "Left"
                   THEN bottom + Inch(frame_depth) - (door_length * 7) \div 10
                   ELSE top - Inch(frame_depth) - (door_length * 3) \div 10
        arrow_start_y == bottom + w \div 2
        arrow_end_y == IF door_sliding = "Left" THEN bottom + w \div 4
                       ELSE bottom + (3 * w) \div 4
        track_x1 == wall_left_x + Inch(wall_thickness) - 10
        track_x2 == wall_left_x + 10
    IN  <<Rect("opening-clear", idx, wall_left_x, bottom, Inch(wall_thickness), w)>>
        \o VJambs(idx, bottom, top, wall_left_x)
        \o <<Rect("sliding-leaf", idx, panel_x, panel_y, Inch(door_thickness), door_length),
             Line("track", idx, track_x1, bottom + Inch(frame_depth),
                  track_x1, top - Inch(frame_depth)),
             Line("track", idx, track_x2, bottom + Inch(frame_depth),
                  track_x2, top - Inch(frame_depth)),
             Arrow("direction-arrow", idx, wall_x, arrow_end_y, wall_x, arrow_start_y, "->")>>

RECURSIVE VPanels(_, _, _, _, _, _, _, _)
VPanels(widths, panel_types, idx, y, fixed_panel_count, wall_x, door_type, door_dir) ==
    IF idx > Len(widths) \/ idx > Len(panel_types) THEN <<>>
    ELSE LET w == Inch(widths[idx])
             ptype == panel_types[idx]
             bottom == y
             top == y + w
             wall_left_x == wall_x - Inch(wall_thickness) \div 2
             count == IF ptype = "Fixed" THEN fixed_panel_count + 1 ELSE fixed_panel_count
         IN  VWallEnds(idx, Len(panel_types), bottom, top, wall_left_x)
             \o (IF ptype = "Fixed" THEN VFixed(idx, bottom, top, wall_x, wall_left_x, count)
                 ELSE IF ptype = door_type /\ door_type = "Swing Door"
                 THEN VSwingDoor(idx, bottom, top, w, wall_x, wall_left_x, door_dir)
                 ELSE IF ptype = door_type /\ door_type = "Sliding Door"
                 THEN VSlidingDoor(idx, bottom, top, w, wall_x, wall_left_x, door_dir)
                 ELSE <<>>)
             \o VPanels(widths, panel_types, idx + 1, y + w, count, wall_x,
                        door_type, door_dir)

VWallExtensions(wall_left_x, wall_y0, wall_y1, draw_bottom_ext, draw_top_ext) ==
    (IF draw_bottom_ext
     THEN <<Rect("wall-ext", 0, wall_left_x, wall_y0 - Inch(wall_ext),
                 Inch(wall_thickness), Inch(wall_ext))>>
     ELSE <<>>)
    \o (IF draw_top_ext
        THEN <<Rect("wall-ext", 0, wall_left_x, wall_y1, Inch(wall_thickness), Inch(wall_ext))>>
        ELSE <<>>)

VSegment(widths, panel_types, start_x, start_y, door_type, door_dir, draw_bottom_ext, draw_top_ext) ==
    IF Len(widths) = 0 THEN <<>>
    ELSE LET wall_y0 == start_y
             wall_y1 == start_y + Inch(SumSeq(widths))
             wall_left_x == start_x - Inch(wall_thickness) \div 2
         IN  VWallExtensions(wall_left_x, wall_y0, wall_y1, draw_bottom_ext, draw_top_ext)
             \o VPanels(widths, panel_types, 1, wall_y0, 0, start_x, door_type, door_dir)

draw_vertical_wall_segment(widths, panel_types, start_x, start_y, door_idx, door_swing, draw_bottom_ext, draw_top_ext) ==
    VSegment(widths, panel_types, start_x, start_y, "Swing Door", door_swing,
             draw_bottom_ext, draw_top_ext)

draw_vertical_sliding_segment(widths, panel_types, start_x, start_y, door_idx, door_sliding, draw_bottom_ext, draw_top_ext) ==
    VSegment(widths, panel_types, start_x, start_y, "Sliding Door", door_sliding,
             draw_bottom_ext, draw_top_ext)

(***************************************************************************)
(* draw_topdown_swing_fixed_with_corners,                                  *)
(* draw_topdown_sliding_fixed_with_corners                                 *)
(***************************************************************************)
\* index of the first Corner panel, 0 when there is none
FirstIndex(panel_types, ptype) ==
    LET hits == {i \in 1..Len(panel_types) : panel_types[i] = ptype}
    IN  IF hits = {} THEN 0 ELSE CHOOSE i \in hits : \A j \in hits : i <= j

\* the per-panel dimension lines beside the vertical segment
RECURSIVE VDimensions(_, _, _, _)
VDimensions(widths, idx, y, dim_x) ==
    IF idx > Len(widths) THEN <<>>
    ELSE LET w == Inch(widths[idx])
         IN  <<Arrow("panel-dim", idx, dim_x, y, dim_x, y + w, "<->"),
               Text("panel-dim-text", idx, dim_x + Inch(2), y + w \div 2,
                    ToString(widths[idx]) \o "\"")>>
             \o VDimensions(widths, idx + 1, y + w, dim_x)

\* the second segment starting where the first one starts
CornerStartX_at_origin(widths, corner_idx) == 0

\* start_x of the second segment: sum(widths[:corner_idx])
CornerStartX(widths, corner_idx) ==
    IF corner_idx > 1 THEN Inch(SumSeq(SubSeq(widths, 1, corner_idx - 1))) ELSE 0

CornerDimensions(widths, corner_idx) ==
    (IF corner_idx > 1
     THEN WithSeg(HDimensions(SubSeq(widths, 1, corner_idx - 1), 1, 0,
                              0 - Inch(wall_thickness) \div 2 - Inch(10)), "first")
     ELSE <<>>)
    \o (IF corner_idx < Len(widths)
        THEN WithSeg(VDimensions(SubSeq(widths, corner_idx + 1, Len(widths)), 1, 0,
                                 CornerStartX(widths, corner_idx) + Inch(15)), "second")
        ELSE <<>>)

draw_topdown_swing_fixed_with_corners(widths, door_idx, door_swing, panel_types) ==
    LET corner_idx == FirstIndex(panel_types, "Corner")
        n == Len(panel_types)
    IN  IF corner_idx = 0
        THEN draw_topdown_swing_fixed(widths, door_idx, door_swing, panel_types)
        ELSE (IF corner_idx > 1
              THEN WithSeg(draw_horizontal_wall_segment(
                               SubSeq(widths, 1, corner_idx - 1),
                               SubSeq(panel_types, 1, corner_idx - 1), 0, 0,
                               IF door_idx < corner_idx THEN door_idx ELSE 0,
                               door_swing, TRUE, FALSE), "first")
              ELSE <<>>)
             \o (IF corner_idx < n
                 THEN WithSeg(draw_vertical_wall_segment(
                                  SubSeq(widths, corner_idx + 1, n),
                                  SubSeq(panel_types, corner_idx + 1, n),
                                  CornerStartX(widths, corner_idx), 0,
                                  IF door_idx > corner_idx THEN door_idx - corner_idx ELSE 0,
                                  door_swing, FALSE, TRUE), "second")
                 ELSE <<>>)
             \o CornerDimensions(widths, corner_idx)

draw_topdown_sliding_fixed_with_corners(widths, door_idx, door_sliding, panel_types) ==
    LET corner_idx == FirstIndex(panel_types, "Corner")
        n == Len(panel_types)
    IN  IF corner_idx = 0
        THEN draw_topdown_sliding_fixed(widths, door_idx, door_sliding, panel_types)
        ELSE (IF corner_idx > 1
              THEN WithSeg(IF door_idx < corner_idx
                           THEN draw_horizontal_sliding_segment(
                                    SubSeq(widths, 1, corner_idx - 1),
                                    SubSeq(panel_types, 1, corner_idx - 1), 0, 0,
                                    door_idx, door_sliding, TRUE, FALSE)
                           ELSE draw_horizontal_wall_segment(
                                    SubSeq(widths, 1, corner_idx - 1),
                                    SubSeq(panel_types, 1, corner_idx - 1), 0, 0,
                                    0, "Right In", TRUE, FALSE), "first")
              ELSE <<>>)
             \o (IF corner_idx < n
                 THEN WithSeg(IF door_idx > corner_idx
                              THEN draw_vertical_sliding_segment(
                                       SubSeq(widths, corner_idx + 1, n),
                                       SubSeq(panel_types, corner_idx + 1, n),
                                       CornerStartX(widths, corner_idx), 0,
                                       door_idx - corner_idx, door_sliding, FALSE, TRUE)
                              ELSE draw_vertical_wall_segment(
                                       SubSeq(widths, corner_idx + 1, n),
                                       SubSeq(panel_types, corner_idx + 1, n),
                                       CornerStartX(widths, corner_idx), 0,
                                       0, "Right In", FALSE, TRUE), "second")
                 ELSE <<>>)
             \o CornerDimensions(widths, corner_idx)

(***************************************************************************)
(* generate_plan_drawing                                                   *)
(***************************************************************************)
PanelTypes(ps) == [i \in 1..Len(ps) |-> ps[i].type]

HasType(panel_types, ptype) == \E i \in 1..Len(panel_types) : panel_types[i] = ptype

PlanFigure(ps) ==
    LET panel_types == PanelTypes(ps)
        widths == Widths(ps)
        has_corner == HasType(panel_types, "Corner")
    IN  IF HasType(panel_types, "Swing Door")
        THEN LET door_idx == FirstIndex(panel_types, "Swing Door")
                 door_swing == ps[door_idx].swing_direction
             IN  IF has_corner
                 THEN draw_topdown_swing_fixed_with_corners(widths, door_idx, door_swing,
                                                            panel_types)
                 ELSE draw_topdown_swing_fixed(widths, door_idx, door_swing, panel_types)
        ELSE LET door_idx == FirstIndex(panel_types, "Sliding Door")
                 door_sliding == ps[door_idx].sliding_direction
             IN  IF has_corner
                 THEN draw_topdown_sliding_fixed_with_corners(widths, door_idx, door_sliding,
                                                              panel_types)
                 ELSE draw_topdown_sliding_fixed(widths, door_idx, door_sliding, panel_types)

generate_plan_drawing_unguarded(opening_data) ==
    LET ps == convert_quoting_tool_data(opening_data)
        panel_types == PanelTypes(ps)
        has_door == HasType(panel_types, "Swing Door") \/ HasType(panel_types, "Sliding Door")
    IN  [panels |-> ps, scene |-> IF has_door THEN PlanFigure(ps) ELSE <<>>,
         result |-> [success |-> TRUE,
                     plan_image |->
                         [figsize |-> IF HasType(panel_types, "Corner")
                                      THEN [fig_width |-> <<12, 1>>, fig_height |-> <<8, 1>>]
                                      ELSE [fig_width |-> <<10, 1>>, fig_height |-> <<4, 1>>],
                          dpi |-> 300]]]

generate_plan_drawing(opening_data) ==
    LET ps == convert_quoting_tool_data(opening_data)
        panel_types == PanelTypes(ps)
    IN  IF ~(HasType(panel_types, "Swing Door") \/ HasType(panel_types, "Sliding Door"))
        THEN [panels |-> ps, scene |-> <<>>,
              result |-> [success |-> FALSE,
                          error |-> "Plan view requires at least one door (swing or sliding)"]]
        ELSE [panels |-> ps, scene |-> PlanFigure(ps),
              result |-> [success |-> TRUE,
                          plan_image |->
                              [figsize |-> IF HasType(panel_types, "Corner")
                                           THEN [fig_width |-> <<12, 1>>, fig_height |-> <<8, 1>>]
                                           ELSE [fig_width |-> <<10, 1>>, fig_height |-> <<4, 1>>],
                               dpi |-> 300]]]

(***************************************************************************)
(* create_bom_page: the aggregation of all_bom_items, a dict kept here as  *)
(* the sequence of its entries in insertion order.                         *)
(***************************************************************************)
RECURSIVE Gcd(_, _)
Gcd(m, n) == IF n = 0 THEN m ELSE Gcd(n, m % n)

\* a + b in lowest terms
FracAdd(a, b) ==
    LET num == a[1] * b[2] + b[1] * a[2]
        den == a[2] * b[2]
        g == Gcd(den, IF num < 0 THEN 0 - num ELSE num)
    IN  <<num \div g, den \div g>>

PartKey(bom_item) ==
    Get(bom_item, "partName", "Unknown") \o " (" \o Get(bom_item, "unit", "ea") \o ")"

BomQty_inches(panel, bom_item) ==
    LET formula == Get(bom_item, "formula", "")
    IN  IF Len(formula) > 0 /\ Contains(Lower(formula), "width")
        THEN <<Get(panel, "width", 0), 1>>
        ELSE IF Len(formula) > 0 /\ Contains(Lower(formula), "height")
        THEN <<Get(panel, "height", 0), 1>>
        ELSE <<Get(bom_item, "quantity", 1), 1>>

\* qty of one BOM item of one panel, in the item's unit
BomQty(panel, bom_item) ==
    LET formula == Get(bom_item, "formula", "")
    IN  IF Len(formula) > 0 /\ Contains(Lower(formula), "width")
        THEN <<Get(panel, "width", 0), 12>>
        ELSE IF Len(formula) > 0 /\ Contains(Lower(formula), "height")
        THEN <<Get(panel, "height", 0), 12>>
        ELSE <<Get(bom_item, "quantity", 1), 1>>

KeyIndex(items, key) == FirstIndex([i \in 1..Len(items) |-> items[i].key], key)

AddBomItem(items, panel, bom_item) ==
    LET part_key == PartKey(bom_item)
        known == IF KeyIndex(items, part_key) # 0 THEN items
                 ELSE Append(items, [key |-> part_key,
                                     partName |-> Get(bom_item, "partName", "Unknown"),
                                     partType |-> Get(bom_item, "partType", "Material"),
                                     description |-> Get(bom_item, "description", ""),
                                     unit |-> Get(bom_item, "unit", "ea"),
                                     quantity |-> <<0, 1>>,
                                     cost |-> Get(bom_item, "cost", 0)])
        k == KeyIndex(known, part_key)
    IN  [known EXCEPT ![k].quantity = FracAdd(@, BomQty(panel, bom_item))]

\* the loops below test Len(items) first, so that the dict built so far is a
\* value before the next entry is added to it
RECURSIVE AddProductBoms(_, _, _)
AddProductBoms(items, panel, boms) ==
    IF Len(items) >= 0 /\ Len(boms) = 0 THEN items
    ELSE AddProductBoms(AddBomItem(items, panel, Head(boms)), panel, Tail(boms))

AddPanelBoms(items, panel) ==
    LET component_instance == Get(panel, "componentInstance", EmptyObj)
        product == Get(component_instance, "product", EmptyObj)
    IN  IF DOMAIN product = {} THEN items
        ELSE AddProductBoms(items, panel, Get(product, "productBOMs", <<>>))

RECURSIVE AddPanelsBoms(_, _)
AddPanelsBoms(items, raw) ==
    IF Len(items) >= 0 /\ Len(raw) = 0 THEN items
    ELSE AddPanelsBoms(AddPanelBoms(items, Head(raw)), Tail(raw))

RECURSIVE CollectBomItems(_, _)
CollectBomItems(items, openings) ==
    IF Len(items) >= 0 /\ Len(openings) = 0 THEN items
    ELSE CollectBomItems(AddPanelsBoms(items, Get(Head(openings), "panels", <<>>)),
                         Tail(openings))

RECURSIVE BomTotalCost(_)
BomTotalCost(items) ==
    IF Len(items) = 0 THEN <<0, 1>>
    ELSE FracAdd(FracTimes(Head(items).cost, Head(items).quantity),
                 BomTotalCost(Tail(items)))

create_bom_page(project_data) ==
    LET items == CollectBomItems(<<>>, Get(project_data, "openings", <<>>))
    IN  [items |-> items,
         result |-> IF Len(items) = 0 THEN [message |-> "No BOM items found"]
                    ELSE [total_cost |-> BomTotalCost(items)]]

(***************************************************************************)
(* The drawing service: one request, handled by one of the generators.     *)
(***************************************************************************)
NoResult == [pending |-> TRUE]

NoInput == [json |-> "none"]

Init ==
    /\ opening \in Openings
    /\ op = "none"
    /\ panels = <<>>
    /\ result = NoResult
    /\ scene = <<>>
    /\ project = [openings |-> <<>>]
    /\ all_bom_items = <<>>
    /\ stdin = NoInput
    /\ stdout = <<>>
    /\ pc = "ready"

Handle(name, outcome) ==
    /\ pc = "ready"
    /\ op' = name
    /\ panels' = outcome.panels
    /\ result' = outcome.result
    /\ scene' = outcome.scene
    /\ pc' = "done"
    /\ UNCHANGED <<opening, project, all_bom_items, stdin, stdout>>

GenerateElevation == Handle("elevation", generate_elevation_drawing(opening, FALSE))

GenerateMiniature == Handle("miniature", generate_elevation_drawing(opening, TRUE))

GeneratePlan == Handle("plan", generate_plan_drawing(opening))

Next == GenerateElevation \/ GenerateMiniature \/ GeneratePlan

Spec == Init /\ [][Next]_vars

TypeOK == pc \in {"ready", "done"}

(***************************************************************************)
(* Plan requests for longer openings: up to MaxPlanPanels panels, enough   *)
(* for a door and a Fixed panel on either side of a Corner.                *)
(***************************************************************************)
MaxPlanPanels == 4

PlanPanels == {RawFixed36, RawSwing30, RawSwing36, RawSliding48, RawSliding60, RawCorner12}

InitPlan ==
    /\ opening \in {[panels |-> ps] : ps \in SeqsUpTo(PlanPanels, MaxPlanPanels)}
    /\ op = "none"
    /\ panels = <<>>
    /\ result = NoResult
    /\ scene = <<>>
    /\ project = [openings |-> <<>>]
    /\ all_bom_items = <<>>
    /\ stdin = NoInput
    /\ stdout = <<>>
    /\ pc = "ready"

NextPlan == GeneratePlan \/ GenerateElevation

SpecPlan == InitPlan /\ [][NextPlan]_vars

(***************************************************************************)
(* The command line entry point: one JSON request on stdin, one JSON       *)
(* result on stdout.  A request is the parsed object, or text that         *)
(* json.loads rejects.                                                     *)
(***************************************************************************)
MaxMainPanels == 2

MainPanels == {RawFixed36, RawSwing30, RawSliding48, RawCorner12, RawCorner0}

MainOpenings == {[panels |-> ps] : ps \in SeqsUpTo(MainPanels, MaxMainPanels)}

WithKey(d, k, vals) == {d} \cup {d @@ (k :> v) : v \in vals}

RequestObjects ==
    UNION {UNION {WithKey(m, "data", MainOpenings) : m \in WithKey(t, "miniature", {TRUE, FALSE})} : t \in WithKey([source |-> "quoting-tool"], "type", {"elevation", "plan", "section", "schedule"})}

Requests == {[json |-> "unparseable"]} \cup {[json |-> "object", value |-> r] : r \in RequestObjects}

\* every drawing type is dispatched to the elevation generator
main_any_type_as_elevation(input) ==
    IF input.json # "object"
    THEN [panels |-> <<>>, scene |-> <<>>,
          result |-> [success |-> FALSE, error |-> "Expecting value: line 1 column 1 (char 0)"]]
    ELSE generate_elevation_drawing(Get(input.value, "data", <<>>), Get(input.value, "miniature", FALSE))

\* the outcome of main: the conversions and figure of the generator it
\* dispatched to, and the result object it prints
main(input) ==
    IF input.json # "object"
    THEN [panels |-> <<>>, scene |-> <<>>,
          result |-> [success |-> FALSE, error |-> "Expecting value: line 1 column 1 (char 0)"]]
    ELSE LET input_data == input.value
             drawing_type == Get(input_data, "type", "elevation")
             opening_data == Get(input_data, "data", <<>>)
             is_miniature == Get(input_data, "miniature", FALSE)
         IN  IF drawing_type = "elevation"
             THEN generate_elevation_drawing(opening_data, is_miniature)
             ELSE IF drawing_type = "plan"
             THEN generate_plan_drawing(opening_data)
             ELSE [panels |-> <<>>, scene |-> <<>>,
                   result |-> [success |-> FALSE,
                               error |-> "Unknown drawing type: " \o drawing_type]]

InitMain ==
    /\ stdin \in Requests
    /\ stdout = <<>>
    /\ opening = [panels |-> <<>>]
    /\ op = "none"
    /\ panels = <<>>
    /\ result = NoResult
    /\ scene = <<>>
    /\ project = [openings |-> <<>>]
    /\ all_bom_items = <<>>
    /\ pc = "ready"

Main ==
    /\ pc = "ready"
    /\ op' = "main"
    /\ panels' = main(stdin).panels
    /\ scene' = main(stdin).scene
    /\ result' = main(stdin).result
    /\ stdout' = Append(stdout, main(stdin).result)
    /\ pc' = "done"
    /\ UNCHANGED <<opening, project, all_bom_items, stdin>>

NextMain == Main

SpecMain == InitMain /\ [][NextMain]_vars

(***************************************************************************)
(* The package generator's BOM page for one project.                       *)
(***************************************************************************)
InitBom ==
    /\ project \in Projects
    /\ opening = [panels |-> <<>>]
    /\ op = "none"
    /\ panels = <<>>
    /\ result = NoResult
    /\ scene = <<>>
    /\ all_bom_items = <<>>
    /\ stdin = NoInput
    /\ stdout = <<>>
    /\ pc = "ready"

CreateBomPage ==
    /\ pc = "ready"
    /\ op' = "bom"
    /\ all_bom_items' = create_bom_page(project).items
    /\ result' = create_bom_page(project).result
    /\ pc' = "done"
    /\ UNCHANGED <<opening, panels, scene, project, stdin, stdout>>

NextBom == CreateBomPage

SpecBom == InitBom /\ [][NextBom]_vars

(***************************************************************************)
(* get_actual_quote_data: one quote line per opening of the project.  The  *)
(* degree sign of the corner's display name is written "deg"; the          *)
(* dimensions and hardware texts are kept as the values they are formatted *)
(* from, and the glass types as the set that is joined in set order.       *)
(***************************************************************************)
MaxQuotePanels == 3

QuotePanels == {RawSwing30, RawFixed36, RawBare, RawOther30, RawCorner12}

QuoteOpening(id, price, ps) == [id |-> id, name |-> "Opening", price |-> price, panels |-> ps]

QuoteOpeningA == QuoteOpening(7, 250, <<RawSliding60, RawSwing36, RawSliding48>>)

QuoteProjects ==
    {[name |-> "Project", openings |-> os] :
        os \in {<<>>}
               \cup {<<QuoteOpening(1, 100, ps)>> : ps \in SeqsUpTo(QuotePanels, MaxQuotePanels)}
               \cup {<<QuoteOpeningA, QuoteOpening(1, 100, ps)>> : ps \in SeqsUpTo(QuotePanels, MaxQuotePanels)}}

quote_hardware_terms == <<"hardware", "handle", "lock", "hinge">>

\* the hardware items one (category_id, option_id) pair adds
QuoteSelection(product_sub_options, category_id, option_id) ==
    LET k == FindCategory(product_sub_options, category_id, 1)
    IN  IF k < 0 THEN Raised("'category'")
        ELSE IF k = 0 THEN [raised |-> FALSE, items |-> <<>>]
        ELSE LET category == product_sub_options[k].category
                 category_name == Lower(category.name)
                 options == category.individualOptions
                 opt == FirstMatch(options,
                                   {i \in 1..Len(options) : options[i].id = option_id})
             IN  [raised |-> FALSE,
                  items |-> IF \A t \in 1..Len(quote_hardware_terms) : ~Contains(category_name, quote_hardware_terms[t])
                            THEN <<>>
                            ELSE IF Len(opt) = 0 THEN <<>>
                            ELSE <<[name |-> category.name \o ": " \o opt[1].name,
                                    price |-> Get(opt[1], "price", 0)]>>]

\* the loop over selections.items(); an exception ends the loop and keeps
\* the items appended before it (except: pass)
RECURSIVE QuoteSelections(_, _, _)
QuoteSelections(product_sub_options, selections, hardware_items) ==
    IF Len(selections) = 0 THEN hardware_items
    ELSE IF selections[1][2] = 0
    THEN QuoteSelections(product_sub_options, Tail(selections), hardware_items)
    ELSE LET one == QuoteSelection(product_sub_options, selections[1][1], selections[1][2])
         IN  IF one.raised THEN hardware_items
             ELSE QuoteSelections(product_sub_options, Tail(selections),
                                  hardware_items \o one.items)

QuotePanelHardware(panel, hardware_items) ==
    LET component_instance == Get(panel, "componentInstance", EmptyObj)
        product == Get(component_instance, "product", EmptyObj)
    IN  IF "subOptionSelections" \notin DOMAIN component_instance THEN hardware_items
        ELSE LET selections == JsonItems(component_instance.subOptionSelections)
             IN  IF selections.raised THEN hardware_items
                 ELSE QuoteSelections(Get(product, "productSubOptions", <<>>),
                                      selections.items, hardware_items)

RECURSIVE QuoteHardware(_, _)
QuoteHardware(ps, hardware_items) ==
    IF Len(ps) = 0 THEN hardware_items
    ELSE QuoteHardware(Tail(ps), QuotePanelHardware(Head(ps), hardware_items))

QuoteGlassTypes(ps) ==
    {ps[i].glassType : i \in {j \in 1..Len(ps) : "glassType" \in DOMAIN ps[j] /\ ps[j].glassType \notin {"", "N/A"}}}

\* panel_types: the product type of every panel with a component instance
QuotePanelTypes(ps) ==
    LET with == SelectSeq(ps, LAMBDA panel : "componentInstance" \in DOMAIN panel)
    IN  [i \in 1..Len(with) |-> with[i].componentInstance.product.productType]

\* type_count: a dict, so its keys are in order of first insertion; kept as
\* the sequence of <<type, count>> pairs
RECURSIVE TypeCount(_, _)
TypeCount(panel_types, type_count) ==
    IF Len(panel_types) = 0 THEN type_count
    ELSE LET panel_type == Head(panel_types)
             at == {k \in 1..Len(type_count) : type_count[k][1] = panel_type}
         IN  TypeCount(Tail(panel_types),
                       IF at = {} THEN Append(type_count, <<panel_type, 1>>)
                       ELSE [k \in 1..Len(type_count) |->
                               IF k \in at THEN <<panel_type, type_count[k][2] + 1>>
                               ELSE type_count[k]])

DisplayType(ptype) ==
    IF ptype = "SWING_DOOR" THEN "Swing Door"
    ELSE IF ptype = "SLIDING_DOOR" THEN "Sliding Door"
    ELSE IF ptype = "FIXED_PANEL" THEN "Fixed Panel"
    ELSE IF ptype = "CORNER_90" THEN "90deg Corner"
    ELSE ptype

\* every part carries the plural "s"
DescriptionPart_always_plural(ptype, count) ==
    ToString(count) \o " " \o DisplayType(ptype) \o "s"

DescriptionPart(ptype, count) ==
    ToString(count) \o " " \o DisplayType(ptype) \o (IF count > 1 THEN "s" ELSE "")

QuoteDescription(ps) ==
    LET type_count == TypeCount(QuotePanelTypes(ps), <<>>)
        description_parts == [k \in 1..Len(type_count) |->
                                DescriptionPart(type_count[k][1], type_count[k][2])]
        joined == Join(", ", description_parts)
    IN  IF joined = "" THEN "Custom Opening" ELSE joined

QuoteItem(opening_data) ==
    LET ps == Get(opening_data, "panels", <<>>)
        hardware_items == QuoteHardware(ps, <<>>)
        glass_types == QuoteGlassTypes(ps)
    IN  [openingId |-> Get(opening_data, "id", "None"),
         name |-> Get(opening_data, "name", "None"),
         description |-> QuoteDescription(ps),
         dimensions |-> [total_width |-> SumSeq([i \in 1..Len(ps) |-> Get(ps[i], "width", 0)]),
                         max_height |-> IF Len(ps) = 0 THEN 0
                                        ELSE MaxSeq([i \in 1..Len(ps) |-> Get(ps[i], "height", 0)])],
         color |-> Get(opening_data, "finishColor", "Standard"),
         hardware |-> IF Len(hardware_items) = 0 THEN <<"Standard Hardware">>
                      ELSE [i \in 1..Len(hardware_items) |-> hardware_items[i].name],
         hardwarePrice |-> SumSeq([i \in 1..Len(hardware_items) |-> hardware_items[i].price]),
         glassType |-> IF glass_types = {} THEN {"Clear"} ELSE glass_types,
         price |-> Get(opening_data, "price", 0)]

get_actual_quote_data(project_data) ==
    LET openings == Get(project_data, "openings", <<>>)
        quote_items == [i \in 1..Len(openings) |-> QuoteItem(openings[i])]
    IN  [success |-> TRUE,
         project |-> [name |-> Get(project_data, "name", "None")],
         quoteItems |-> quote_items,
         totalPrice |-> SumSeq([i \in 1..Len(quote_items) |-> quote_items[i].price])]

InitQuote ==
    /\ project \in QuoteProjects
    /\ opening = [panels |-> <<>>]
    /\ op = "none"
    /\ panels = <<>>
    /\ result = NoResult
    /\ scene = <<>>
    /\ all_bom_items = <<>>
    /\ stdin = NoInput
    /\ stdout = <<>>
    /\ pc = "ready"

GetActualQuoteData ==
    /\ pc = "ready"
    /\ op' = "quote"
    /\ result' = get_actual_quote_data(project)
    /\ pc' = "done"
    /\ UNCHANGED <<opening, panels, scene, project, all_bom_items, stdin, stdout>>

NextQuote == GetActualQuoteData

SpecQuote == InitQuote /\ [][NextQuote]_vars

(***************************************************************************)
(* generate_door_schedule_from_opening: the schedule the package generator *)
(* builds itself when the drawing generator returned none.                 *)
(***************************************************************************)
\* the loop over selections.items() with the local list hardware_items
RECURSIVE PackageScheduleSelections(_, _, _)
PackageScheduleSelections(product_sub_options, selections, hardware_items) ==
    IF Len(selections) = 0 THEN [raised |-> FALSE, items |-> hardware_items]
    ELSE IF selections[1][2] = 0
    THEN PackageScheduleSelections(product_sub_options, Tail(selections), hardware_items)
    ELSE LET one == QuoteSelection(product_sub_options, selections[1][1], selections[1][2])
         IN  IF one.raised THEN one
             ELSE PackageScheduleSelections(product_sub_options, Tail(selections),
                      hardware_items \o [i \in 1..Len(one.items) |-> one.items[i].name])

\* hardware stays 'Standard' when the try block raises or finds nothing
PackageScheduleHardware(panel) ==
    LET component_instance == Get(panel, "componentInstance", EmptyObj)
        product == Get(component_instance, "product", EmptyObj)
    IN  IF "subOptionSelections" \notin DOMAIN component_instance THEN "Standard"
        ELSE LET selections == JsonItems(component_instance.subOptionSelections)
                 resolved == IF selections.raised THEN selections
                             ELSE PackageScheduleSelections(
                                      Get(product, "productSubOptions", <<>>),
                                      selections.items, <<>>)
             IN  IF resolved.raised \/ Len(resolved.items) = 0 THEN "Standard"
                 ELSE Join(", ", resolved.items)

PackageScheduleRow(i, panel) ==
    <<ToString(i), Get(panel, "type", "Panel"),
      ToString(Get(panel, "width", 0)) \o "\" x " \o ToString(Get(panel, "height", 0)) \o "\"",
      Get(panel, "glassType", "Clear"), PackageScheduleHardware(panel)>>

generate_door_schedule_from_opening(opening_data) ==
    LET ps == Get(opening_data, "panels", <<>>)
    IN  IF Len(ps) = 0 THEN [returned |-> "None"]
        ELSE [headers |-> <<"Item", "Type", "Size", "Glass", "Hardware">>,
              rows |-> [i \in 1..Len(ps) |-> PackageScheduleRow(i, ps[i])]]

GenerateDoorScheduleFromOpening ==
    /\ pc = "ready"
    /\ op' = "package_schedule"
    /\ result' = generate_door_schedule_from_opening(opening)
    /\ pc' = "done"
    /\ UNCHANGED <<opening, panels, scene, project, all_bom_items, stdin, stdout>>

(***************************************************************************)
(* One opening handed to the drawing generator and to the package          *)
(* generator: panels with one option category each, the category and the   *)
(* option named from small sets.                                           *)
(***************************************************************************)
MaxHardwarePanels == 2

HardwareCategoryNames == {"Handle", "Finish", "Track", "Door Hardware", "LOCKSET", "Hinges"}

HardwareOptionNames == {"Lever", "Pull Bar"}

HardwarePanel(category_name, option_name) ==
    [id |-> 9, width |-> 36, height |-> 96, swingDirection |-> "Left In",
     componentInstance |->
        [subOptionSelections |-> SelectionsObject(<<<<"1", 10>>>>),
         product |-> [productType |-> "SWING_DOOR",
                      productSubOptions |->
                          <<[category |-> [id |-> 1, name |-> category_name,
                                           individualOptions |->
                                               <<[id |-> 10, name |-> option_name,
                                                  price |-> 25]>>]]>>]]]

HardwarePanels ==
    {HardwarePanel(c, o) : c \in HardwareCategoryNames, o \in HardwareOptionNames}
        \cup {RawSwing30, RawSliding60}

InitHardware ==
    /\ \E ps \in SeqsUpTo(HardwarePanels, MaxHardwarePanels) :
          /\ opening = [panels |-> ps]
          /\ project = [name |-> "Project", openings |-> <<QuoteOpening(1, 100, ps)>>]
    /\ op = "none"
    /\ panels = <<>>
    /\ result = NoResult
    /\ scene = <<>>
    /\ all_bom_items = <<>>
    /\ stdin = NoInput
    /\ stdout = <<>>
    /\ pc = "ready"

NextHardware == GenerateElevation \/ GetActualQuoteData \/ GenerateDoorScheduleFromOpening

SpecHardware == InitHardware /\ [][NextHardware]_vars

(***************************************************************************)
(* Properties.  Raw(i) is the i-th panel of the request, Canon(i) what the *)
(* properties expect its canonical form to be.                             *)
(***************************************************************************)
Done(name) == pc = "done" /\ op = name

RawSeq == opening.panels

NPanels == Len(RawSeq)

RawType(i) ==
    IF "componentInstance" \in DOMAIN RawSeq[i] THEN RawSeq[i].componentInstance.product.productType
    ELSE "missing"

ExpectedType(i) ==
    CASE RawType(i) = "SWING_DOOR" -> "Swing Door"
      [] RawType(i) = "SLIDING_DOOR" -> "Sliding Door"
      [] RawType(i) = "CORNER_90" -> "Corner"
      [] OTHER -> "Fixed"

ExpectedWidth(i) == IF "width" \in DOMAIN RawSeq[i] THEN RawSeq[i].width ELSE 36

ExpectedHeight(i) == IF "height" \in DOMAIN RawSeq[i] THEN RawSeq[i].height ELSE 96

IsDoor(i) == RawType(i) \in {"SWING_DOOR", "SLIDING_DOOR"}

Indices(ptype) == {i \in 1..NPanels : ExpectedType(i) = ptype}

RECURSIVE SumTo(_, _)
SumTo(f, n) == IF n = 0 THEN 0 ELSE f[n] + SumTo(f, n - 1)

\* inches to the left of panel i, and the total
LeftOf(i) == SumTo([k \in 1..NPanels |-> ExpectedWidth(k)], i - 1)

TotalWidth == LeftOf(NPanels + 1)

OfRole(roles) == SelectSeq(scene, LAMBDA p : p.role \in roles)

C2_ScheduleRowPerPanel ==
    (pc = "done" /\ op \in {"elevation", "miniature"}) =>
        LET rows == draw_door_schedule(panels).rows
        IN  /\ result.success => result.door_schedule.rows = rows
            /\ Len(rows) = NPanels
            /\ \A i \in 1..NPanels :
                  /\ rows[i][1] = ToString(i)
                  /\ rows[i][2] = ExpectedType(i)
                  /\ rows[i][3] = ToString(ExpectedWidth(i))
                  /\ rows[i][4] =
                        (IF ExpectedType(i) = "Swing Door"
                         THEN Get(RawSeq[i], "swingDirection", "Right In")
                         ELSE IF ExpectedType(i) = "Sliding Door"
                         THEN Get(RawSeq[i], "slidingDirection", "Left")
                         ELSE "-")

C2_Witness ==
    /\ Done("elevation")
    /\ result.success
    /\ NPanels = 3
    /\ RawSeq[1] = RawSliding48 /\ RawSeq[2] = RawSwing30 /\ RawSeq[3] = RawFixed36
    /\ result.door_schedule.rows[1][4] = "Right"
    /\ result.door_schedule.rows[2][4] = "Left Out"
    /\ result.door_schedule.rows[3][4] = "-"

\* C3: every successful elevation result and every successful plan result
\* reports a bounding width equal to the sum of the panels' widths.
C3_BoundingWidthReported ==
    (pc = "done" /\ op \in {"elevation", "plan"} /\ result.success) =>
        /\ "total_width" \in DOMAIN result
        /\ result.total_width = TotalWidth

\* the elevation half of C3
C3_ElevationWidth ==
    (pc = "done" /\ op \in {"elevation", "miniature"} /\ result.success) =>
        result.total_width = TotalWidth

\* C4: for total width W > 0 and height H > 0 the elevation figure is
\* (W * scale, H * scale) with scale = min(12 / W, 6 / H): it keeps the ratio
\* (fig_width * H = fig_height * W), fits the 12 x 6 budget and fills it in
\* one direction.
C4_ElevationScale ==
    (pc = "done" /\ op = "elevation" /\ result.success) =>
        LET W == TotalWidth
            H == result.height
            fw == result.elevation_image.figsize.fig_width
            fh == result.elevation_image.figsize.fig_height
        IN  /\ fw[2] > 0 /\ fh[2] > 0
            /\ fw[1] * fh[2] * H = fh[1] * fw[2] * W
            /\ fw[1] <= 12 * fw[2]
            /\ fh[1] <= 6 * fh[2]
            /\ (fw[1] = 12 * fw[2] \/ fh[1] = 6 * fh[2])
            /\ (W * 6 >= 12 * H) <=> (fw[1] = 12 * fw[2])

C4_Witness ==
    /\ Done("elevation")
    /\ result.success
    /\ TotalWidth > 2 * result.height
    /\ result.elevation_image.figsize.fig_width[1]
          = 12 * result.elevation_image.figsize.fig_width[2]
    /\ result.elevation_image.figsize.fig_height[1]
          < 6 * result.elevation_image.figsize.fig_height[2]

\* ---- BOM aggregation
\* <<o, p, b>>: BOM item b of the product of panel p of opening o
NumBoms(o, p) ==
    LET panel == project.openings[o].panels[p]
    IN  IF "componentInstance" \in DOMAIN panel
           /\ "productBOMs" \in DOMAIN panel.componentInstance.product
        THEN Len(panel.componentInstance.product.productBOMs)
        ELSE 0

BomOccurrences ==
    UNION {UNION {{<<o, p, b>> : b \in 1..NumBoms(o, p)} :
                     p \in 1..Len(project.openings[o].panels)} :
              o \in 1..Len(project.openings)}

OccPanel(t) == project.openings[t[1]].panels[t[2]]

OccItem(t) == OccPanel(t).componentInstance.product.productBOMs[t[3]]

OccKey(t) ==
    OccItem(t).partName \o " ("
    \o (IF "unit" \in DOMAIN OccItem(t) THEN OccItem(t).unit ELSE "ea") \o ")"

OccWidthBased(t) ==
    /\ "formula" \in DOMAIN OccItem(t)
    /\ \E i \in 1..Len(OccItem(t).formula) - 4 :
          SubSeq(OccItem(t).formula, i, i + 4) \in {"width", "Width", "WIDTH"}

\* the widths of the panels of the occurrences occs, one per occurrence
SumWidths(occs) ==
    LET PanelWidth(o, p) ==
            LET panel == project.openings[o].panels[p]
            IN  IF "width" \in DOMAIN panel THEN panel.width ELSE 0
        InPanel(o, p) == Cardinality({t \in occs : t[1] = o /\ t[2] = p})
        InOpening(o) ==
            SumTo([p \in 1..Len(project.openings[o].panels) |->
                       PanelWidth(o, p) * InPanel(o, p)],
                  Len(project.openings[o].panels))
    IN  SumTo([o \in 1..Len(project.openings) |-> InOpening(o)], Len(project.openings))

\* C5: the BOM has one entry per key "partName (unit)" that occurs in the
\* project, and the quantity of a key fed by "width" formulas only is the sum
\* of the contributing panels' widths divided by 12 (36 and 48 give 7).
C5_BomWidthQuantity ==
    Done("bom") =>
        /\ {all_bom_items[k].key : k \in 1..Len(all_bom_items)}
              = {OccKey(t) : t \in BomOccurrences}
        /\ \A k \in 1..Len(all_bom_items) :
              LET item == all_bom_items[k]
                  occs == {t \in BomOccurrences : OccKey(t) = item.key}
              IN  /\ item.key = item.partName \o " (" \o item.unit \o ")"
                  /\ \A j \in 1..Len(all_bom_items) : all_bom_items[j].key = item.key => j = k
                  /\ (\A t \in occs : OccWidthBased(t)) =>
                        /\ item.quantity[2] > 0
                        /\ 12 * item.quantity[1] = SumWidths(occs) * item.quantity[2]

C5_Witness ==
    /\ Done("bom")
    /\ project.openings = <<[panels |-> <<RawFixed36>>], [panels |-> <<RawSliding48>>]>>
    /\ \E k \in 1..Len(all_bom_items) :
          /\ all_bom_items[k].key = "Frame (ft)"
          /\ all_bom_items[k].quantity = <<7, 1>>

\* ---- plan view
CornerAt == CHOOSE c \in Indices("Corner") : TRUE

Count(roles) == Len(OfRole(roles))

InSeg(roles, seg) == SelectSeq(scene, LAMBDA p : p.role \in roles /\ p.seg = seg)

\* the centre line of a wall run, from the two wall-end lines of its segment:
\* <<x0, y0, x1, y1>>
RunOf(seg) ==
    LET ends == InSeg({"wall-end"}, seg)
    IN  <<(ends[1].x0 + ends[1].x1) \div 2, (ends[1].y0 + ends[1].y1) \div 2,
          (ends[2].x0 + ends[2].x1) \div 2, (ends[2].y0 + ends[2].y1) \div 2>>

\* the closed rectangle r contains the point <<x, y>>
RectHas(r, x, y) == r.x <= x /\ x <= r.x + r.w /\ r.y <= y /\ y <= r.y + r.h

\* one Corner between a segment with the opening's one Swing Door and a
\* Fixed-only segment, both non-empty
C6_Case ==
    /\ Done("plan")
    /\ Cardinality(Indices("Corner")) = 1
    /\ Cardinality(Indices("Swing Door")) = 1
    /\ Indices("Sliding Door") = {}
    /\ 1 < CornerAt /\ CornerAt < NPanels
    /\ \/ \A i \in 1..(CornerAt - 1) : ExpectedType(i) = "Fixed"
       \/ \A i \in (CornerAt + 1)..NPanels : ExpectedType(i) = "Fixed"
    /\ \A i \in 1..NPanels : ExpectedWidth(i) > 0 \/ i = CornerAt

\* C6: in that case the horizontal and the vertical wall run have exactly one
\* point in common, one door leaf is drawn in all, and there are two
\* wall-extension stubs, one at the outer end of each run, none of which
\* reaches the point where the runs meet.
C6_CornerRunsLeafStubs ==
    C6_Case =>
        /\ result.success
        /\ Len(InSeg({"wall-end"}, "first")) = 2
        /\ Len(InSeg({"wall-end"}, "second")) = 2
        /\ LET h == RunOf("first")
               v == RunOf("second")
               common == {pt \in {<<v[1], h[2]>>} :
                             /\ h[2] = h[4] /\ v[1] = v[3]
                             /\ h[1] <= pt[1] /\ pt[1] <= h[3]
                             /\ v[2] <= pt[2] /\ pt[2] <= v[4]}
               stubs1 == InSeg({"wall-ext"}, "first")
               stubs2 == InSeg({"wall-ext"}, "second")
           IN  /\ Cardinality(common) = 1
               /\ h[1] < h[3] /\ v[2] < v[4]
               /\ Count({"door-leaf", "sliding-leaf"}) = 1
               /\ Count({"wall-ext"}) = 2
               /\ Len(stubs1) = 1 /\ Len(stubs2) = 1
               /\ stubs1[1].x + stubs1[1].w = h[1]
               /\ stubs2[1].y = v[4]
               /\ \A pt \in common :
                     ~RectHas(stubs1[1], pt[1], pt[2]) /\ ~RectHas(stubs2[1], pt[1], pt[2])

C6_Witness ==
    /\ C6_Case
    /\ result.success
    /\ RawSeq = <<RawFixed36, RawCorner0, RawSwing30>>
    /\ Count({"door-leaf"}) = 1
    /\ RunOf("first")[3] = RunOf("second")[1]

\* a plan without Corner whose one Swing Door is panel d
C7_Case(d) ==
    /\ Done("plan")
    /\ Indices("Corner") = {}
    /\ Indices("Swing Door") = {d}

\* C7: such a plan has exactly one swing arc; its centre is frame_depth inside
\* the left jamb when the door's direction contains "Left" and frame_depth
\* inside the right jamb otherwise, its radius is w - 2 * frame_depth, and it
\* spans 0..90 degrees for "Left" and 90..180 degrees otherwise.
C7_SingleSwingArc ==
    \A d \in 1..NPanels :
        C7_Case(d) =>
            LET arcs == OfRole({"swing-arc"})
                left == Inch(LeftOf(d))
                right == Inch(LeftOf(d + 1))
                dir == Get(RawSeq[d], "swingDirection", "Right In")
                is_left == dir \in {"Left In", "Left Out"}
            IN  /\ result.success
                /\ Len(arcs) = 1
                /\ arcs[1].y = 0
                /\ arcs[1].x = IF is_left THEN left + Inch(frame_depth)
                                        ELSE right - Inch(frame_depth)
                /\ arcs[1].r = Inch(ExpectedWidth(d)) - 2 * Inch(frame_depth)
                /\ <<arcs[1].theta1, arcs[1].theta2>> = IF is_left THEN <<0, 90>> ELSE <<90, 180>>

C7_Witness ==
    /\ C7_Case(2)
    /\ RawSeq = <<RawFixed36, RawSwing30, RawFixed36>>
    /\ Len(OfRole({"swing-arc"})) = 1
    /\ OfRole({"swing-arc"})[1].x = Inch(36) + Inch(frame_depth)
    /\ OfRole({"swing-arc"})[1].r = Inch(24)
    /\ OfRole({"swing-arc"})[1].theta1 = 0

\* a plan without Corner whose only door is the Sliding Door at panel d, wider
\* than its two jambs
C8_Case(d) ==
    /\ Done("plan")
    /\ Indices("Corner") = {}
    /\ Indices("Swing Door") = {}
    /\ Indices("Sliding Door") = {d}
    /\ ExpectedWidth(d) > 2 * frame_depth
    /\ \A i \in 1..NPanels : ExpectedWidth(i) > 0

SlidingDir(d) == Get(RawSeq[d], "slidingDirection", "Left")

\* exactly one direction arrow, its head on the named side of its tail
C8_Arrow(d) ==
    LET arrows == OfRole({"direction-arrow"})
    IN  /\ Len(arrows) = 1
        /\ IF SlidingDir(d) = "Right" THEN arrows[1].headx > arrows[1].tailx
                                      ELSE arrows[1].headx < arrows[1].tailx

\* the one sliding leaf reaches beyond the door's jamb on the named side
C8_LeafPastJamb(d) ==
    LET leaves == OfRole({"sliding-leaf"})
    IN  /\ Len(leaves) = 1
        /\ IF SlidingDir(d) = "Right"
           THEN leaves[1].x + leaves[1].w > Inch(LeftOf(d + 1))
           ELSE leaves[1].x < Inch(LeftOf(d))

C10_ConvertMapping ==
    pc = "done" =>
        /\ Len(panels) = NPanels
        /\ \A i \in 1..NPanels :
              LET raw == RawSeq[i]
                  ptype == IF "componentInstance" \in DOMAIN raw
                              /\ "productType" \in DOMAIN raw.componentInstance.product
                           THEN raw.componentInstance.product.productType
                           ELSE "none"
              IN  /\ panels[i].type = CASE ptype = "SWING_DOOR" -> "Swing Door"
                                        [] ptype = "SLIDING_DOOR" -> "Sliding Door"
                                        [] ptype = "CORNER_90" -> "Corner"
                                        [] OTHER -> "Fixed"
                  /\ panels[i].width = IF "width" \in DOMAIN raw THEN raw.width ELSE 36
                  /\ panels[i].swing_direction =
                         IF "swingDirection" \in DOMAIN raw THEN raw.swingDirection
                         ELSE "Right In"
                  /\ panels[i].sliding_direction =
                         IF "slidingDirection" \in DOMAIN raw THEN raw.slidingDirection
                         ELSE "Left"

C10_Witness ==
    /\ pc = "done"
    /\ RawSeq = <<RawBare, RawSwing36, RawSliding60>>
    /\ panels[1].type = "Fixed" /\ panels[1].width = 36
    /\ panels[2].swing_direction = "Right In"
    /\ panels[3].sliding_direction = "Left"

\* ---- validation of the request
\* C11: a request whose opening has a panel of width <= 0 is never answered
\* with success = TRUE, by the elevation or by the plan, also when the other
\* panels make the total width positive.
C11_NonPositiveWidthRejected ==
    ((Done("elevation") \/ Done("plan"))
        /\ \E i \in 1..NPanels : ExpectedWidth(i) <= 0)
    => ~result.success

\* C12: a request for an opening without panels is answered with
\* success = FALSE and an error message, for the full elevation, the
\* miniature elevation and the plan alike.
C12_EmptyOpeningIsError ==
    (pc = "done" /\ op \in {"elevation", "miniature", "plan"} /\ NPanels = 0)
    => (~result.success /\ "error" \in DOMAIN result)

\* the full elevation and the plan of an empty opening do report an error
C12_EmptyFullAndPlan ==
    ((Done("elevation") \/ Done("plan")) /\ NPanels = 0)
    => (~result.success /\ "error" \in DOMAIN result)

\* C13: a plan request for panels with more than one Corner and at least one
\* door is answered with success = FALSE and an error message.
C13_MultipleCornersRejected ==
    (Done("plan")
        /\ Cardinality(Indices("Corner")) > 1
        /\ \E i \in 1..NPanels : IsDoor(i))
    => (~result.success /\ "error" \in DOMAIN result)

\* ---- hardware selections
RawSelections(i) == RawSeq[i].componentInstance.subOptionSelections

RawSchema(i) ==
    IF "productSubOptions" \in DOMAIN RawSeq[i].componentInstance.product
    THEN RawSeq[i].componentInstance.product.productSubOptions
    ELSE <<>>

HasSelections(i) ==
    /\ "componentInstance" \in DOMAIN RawSeq[i]
    /\ "subOptionSelections" \in DOMAIN RawSeq[i].componentInstance

\* panel i's selections are a mapping and every schema entry has its fields
WellFormedSelections(i) ==
    /\ HasSelections(i)
    /\ RawSelections(i).json = "object"
    /\ \A k \in 1..Len(RawSchema(i)) :
          /\ "category" \in DOMAIN RawSchema(i)[k]
          /\ "individualOptions" \in DOMAIN RawSchema(i)[k].category

\* the line item of one pair: <<"category name: option name">> when the
\* schema has the category and the category has the option, <<>> otherwise
ExpectedItem(schema, pair) ==
    LET cats == {k \in 1..Len(schema) : ToString(schema[k].category.id) = pair[1]}
    IN  IF cats = {} THEN <<>>
        ELSE LET c == schema[CHOOSE k \in cats : \A j \in cats : k <= j].category
                 opts == {o \in 1..Len(c.individualOptions) :
                             c.individualOptions[o].id = pair[2]}
             IN  IF opts = {} THEN <<>>
                 ELSE <<c.name \o ": "
                        \o c.individualOptions[CHOOSE o \in opts :
                                                  \A j \in opts : o <= j].name>>

RECURSIVE ExpectedItems(_, _)
ExpectedItems(schema, pairs) ==
    IF Len(pairs) = 0 THEN <<>>
    ELSE ExpectedItem(schema, Head(pairs)) \o ExpectedItems(schema, Tail(pairs))

\* C14: with well-formed selection data, a panel's hardware line items are,
\* in the order of its pairs, one "category name: option name" per pair whose
\* category and option are in the schema and nothing for a pair with an
\* unknown category or option id; unknown ids raise no error and leave the
\* items of the other pairs as they are.
C14_UnknownIdsSkipped ==
    pc = "done" =>
        \A i \in 1..NPanels :
            WellFormedSelections(i) =>
                /\ i <= Len(panels)
                /\ panels[i].hardware_options
                      = ExpectedItems(RawSchema(i), RawSelections(i).items)
                /\ ("error" \in DOMAIN result => result.error \notin {"'category'", "'individualOptions'"})

C14_Witness ==
    /\ pc = "done"
    /\ RawSeq = <<RawSwing30, RawSliding48>>
    /\ panels[1].hardware_options = <<"Handle: Lever", "Finish: Bronze">>
    /\ panels[2].hardware_options = <<"Finish: Bronze">>

\* C15: a request for an opening one of whose panels has malformed selection
\* data (unparseable text, a value that is no mapping, a schema entry without
\* its category or options) is answered with success = FALSE and a message.
C15_MalformedSelectionsFail ==
    (pc = "done" /\ op \in {"elevation", "miniature", "plan"}
        /\ \E i \in 1..NPanels : HasSelections(i) /\ ~WellFormedSelections(i))
    => (~result.success /\ "error" \in DOMAIN result)

\* the drawing type main dispatches on: the request's "type", "elevation"
\* when the request has none
C16_Type == IF "type" \in DOMAIN stdin.value THEN stdin.value.type ELSE "elevation"

\* C16: main prints exactly one result object, and it has a success flag.  A
\* request of type "elevation" (also one without a type) or "plan" is answered
\* by that generator, any other type by success = FALSE and the error
\* "Unknown drawing type: <type>".  Every failure carries an error message,
\* every success the image of the requested type.
C16_MainResult ==
    Done("main") =>
        /\ Len(stdout) = 1
        /\ stdout[1] = result
        /\ "success" \in DOMAIN result
        /\ ~result.success => "error" \in DOMAIN result
        /\ (stdin.json = "object" /\ C16_Type = "elevation" /\ result.success)
               => ("elevation_image" \in DOMAIN result /\ "plan_image" \notin DOMAIN result)
        /\ (stdin.json = "object" /\ C16_Type = "plan" /\ result.success)
               => ("plan_image" \in DOMAIN result /\ "elevation_image" \notin DOMAIN result)
        /\ (stdin.json = "object" /\ C16_Type \notin {"elevation", "plan"})
               => result = [success |-> FALSE, error |-> "Unknown drawing type: " \o C16_Type]

C16_Witness ==
    /\ Done("main")
    /\ stdin.json = "object"
    /\ "type" \in DOMAIN stdin.value
    /\ stdin.value.type = "section"
    /\ stdout = <<[success |-> FALSE, error |-> "Unknown drawing type: section"]>>

\* the opening height the elevation is drawn at: the tallest panel
C17_Height ==
    CHOOSE h \in {ExpectedHeight(i) : i \in 1..NPanels} :
        \A i \in 1..NPanels : ExpectedHeight(i) <= h

C18_HasInstance(ps, i) == "componentInstance" \in DOMAIN ps[i]

C18_Type(ps, i) == ps[i].componentInstance.product.productType

C18_Count(ps, t) == Cardinality({i \in 1..Len(ps) : C18_HasInstance(ps, i) /\ C18_Type(ps, i) = t})

\* the panels at which a product type occurs for the first time
C18_Firsts(ps) ==
    {i \in 1..Len(ps) : /\ C18_HasInstance(ps, i)
                        /\ \A j \in 1..(i - 1) : C18_HasInstance(ps, j) => C18_Type(ps, j) # C18_Type(ps, i)}

C18_Nth(S, k) == CHOOSE i \in S : Cardinality({j \in S : j < i}) = k - 1

C18_Expected(ps) ==
    LET firsts == C18_Firsts(ps)
        part(i) == LET n == C18_Count(ps, C18_Type(ps, i))
                   IN  ToString(n) \o " " \o DisplayType(C18_Type(ps, i))
                       \o (IF n > 1 THEN "s" ELSE "")
    IN  IF firsts = {} THEN "Custom Opening"
        ELSE Join(", ", [k \in 1..Cardinality(firsts) |-> part(C18_Nth(firsts, k))])

\* C18: the quote description of every opening lists each distinct product
\* type of its panels once, in order of first occurrence, as "<count> <display
\* name>" with a trailing "s" exactly when the count exceeds 1, the parts
\* joined by ", "; the counts add up to the number of panels that have a
\* component instance, and an opening without such panels is described as
\* "Custom Opening".
C18_QuoteDescription ==
    Done("quote") =>
        /\ Len(result.quoteItems) = Len(project.openings)
        /\ \A q \in 1..Len(project.openings) :
              LET ps == project.openings[q].panels
              IN  /\ result.quoteItems[q].description = C18_Expected(ps)
                  /\ SumSeq([k \in 1..Cardinality(C18_Firsts(ps)) |->
                                C18_Count(ps, C18_Type(ps, C18_Nth(C18_Firsts(ps), k)))])
                       = Cardinality({i \in 1..Len(ps) : C18_HasInstance(ps, i)})

C18_Witness ==
    /\ Done("quote")
    /\ Len(project.openings) = 2
    /\ project.openings[2].panels = <<RawSwing30, RawFixed36, RawSwing30>>
    /\ result.quoteItems[2].description = "2 Swing Doors, 1 Fixed Panel"
    /\ result.quoteItems[1].description = "2 Sliding Doors, 1 Swing Door"

\* ---- elevation layout
\* the frame rectangles of panel i in the scene
C19_Frame(i) ==
    {k \in 1..Len(scene) : scene[k].kind = "rect" /\ scene[k].panel = i
                           /\ scene[k].role \notin {"glass-stop"}}

\* a drawn panel wide enough to hold its two stiles (4" each at most)
C19_Framed(i) == ExpectedType(i) # "Corner" /\ ExpectedWidth(i) >= 8

\* C19: in the elevation the running x-offset starts at 0 and advances by each
\* panel's width, whatever the panel's type (Corner included): the number
\* label of panel i sits over the middle of [sum of the widths before i, that
\* sum + width i], the frame of a drawn panel begins and ends exactly at the
\* two ends of that interval and nowhere leaves it, so that neighbours share
\* a boundary without gap or overlap, and the offset after the last panel is
\* the total width, which the overall dimension spans from 0.
C19_RunningOffset ==
    (Done("elevation") /\ result.success) =>
        /\ \A i \in 1..NPanels :
              LET left == Inch(LeftOf(i))
                  right == Inch(LeftOf(i + 1))
              IN  /\ right = left + Inch(ExpectedWidth(i))
                  /\ \E k \in 1..Len(scene) :
                        /\ scene[k].role = "panel-label" /\ scene[k].panel = i
                        /\ scene[k].x = left + Inch(ExpectedWidth(i)) \div 2
                  /\ C19_Framed(i) =>
                        /\ \A k \in C19_Frame(i) :
                              left <= scene[k].x /\ scene[k].x + scene[k].w <= right
                        /\ \E k \in C19_Frame(i) : scene[k].x = left
                        /\ \E k \in C19_Frame(i) : scene[k].x + scene[k].w = right
        /\ result.total_width = TotalWidth
        /\ \E k \in 1..Len(scene) :
              /\ scene[k].role = "overall-width-dim"
              /\ {scene[k].headx, scene[k].tailx} = {0, Inch(LeftOf(NPanels + 1))}

C19_Witness ==
    /\ Done("elevation")
    /\ RawSeq = <<RawFixed36, RawCorner12, RawSwing30>>
    /\ result.success
    /\ \E k \in 1..Len(scene) :
          scene[k].role = "left-stile" /\ scene[k].panel = 3 /\ scene[k].x = Inch(48)
    /\ \E k \in 1..Len(scene) :
          scene[k].role = "panel-label" /\ scene[k].panel = 2 /\ scene[k].x = Inch(42)

\* ---- fixed panel stiles in the elevation
C20_Rects(i, roles) ==
    SelectSeq(scene, LAMBDA p : p.kind = "rect" /\ p.panel = i /\ p.role \in roles)

C20_IsSliding(j) == j \in 1..NPanels /\ ExpectedType(j) = "Sliding Door"

\* the stiles of panel j that touch the vertical line at x
C20_StilesAt(j, x) ==
    SelectSeq(C20_Rects(j, {"left-stile", "right-stile", "outer-stile", "lock-stile"}),
              LAMBDA p : p.x = x \/ p.x + p.w = x)

\* the width of the stile of a Fixed panel on a side with neighbour j (0 or
\* NPanels + 1 at the two ends of the opening)
C20_StileWidth(j) == IF j \in 1..NPanels THEN Inch(1) ELSE Inch(4)

\* C20: in the elevation, a side of a Fixed panel whose neighbour is a Sliding
\* Door has no stile, and the panel's top and bottom rails reach that edge, so
\* that the junction carries exactly one stile, the sliding door's; any other
\* side has one stile, 4" wide at the outer edge of the first or last panel
\* and 1" wide at an interior side, and the rails start at it.
C20_FixedStiles ==
    (Done("elevation") /\ result.success) =>
        \A i \in Indices("Fixed") :
            LET left == Inch(LeftOf(i))
                right == Inch(LeftOf(i + 1))
                lefts == C20_Rects(i, {"left-stile"})
                rights == C20_Rects(i, {"right-stile"})
                rails == C20_Rects(i, {"top-rail", "bottom-rail"})
            IN  /\ Len(rails) = 2
                /\ IF C20_IsSliding(i - 1)
                   THEN /\ Len(lefts) = 0
                        /\ \A k \in 1..2 : rails[k].x = left
                        /\ Len(C20_StilesAt(i - 1, left)) = 1
                        /\ (ExpectedWidth(i) > 4 => Len(C20_StilesAt(i, left)) = 0)
                   ELSE /\ Len(lefts) = 1
                        /\ lefts[1].x = left
                        /\ lefts[1].w = C20_StileWidth(i - 1)
                        /\ \A k \in 1..2 : rails[k].x = left + C20_StileWidth(i - 1)
                /\ IF C20_IsSliding(i + 1)
                   THEN /\ Len(rights) = 0
                        /\ \A k \in 1..2 : rails[k].x + rails[k].w = right
                        /\ Len(C20_StilesAt(i + 1, right)) = 1
                        /\ (ExpectedWidth(i) > 4 => Len(C20_StilesAt(i, right)) = 0)
                   ELSE /\ Len(rights) = 1
                        /\ rights[1].x + rights[1].w = right
                        /\ rights[1].w = C20_StileWidth(i + 1)
                        /\ \A k \in 1..2 : rails[k].x + rails[k].w = right - C20_StileWidth(i + 1)

C20_Witness ==
    /\ Done("elevation")
    /\ RawSeq = <<RawSwing30, RawFixed36, RawSliding48>>
    /\ result.success
    /\ Len(C20_Rects(2, {"right-stile"})) = 0
    /\ C20_Rects(2, {"left-stile"})[1].w = Inch(1)
    /\ C20_Rects(2, {"top-rail"})[1].x + C20_Rects(2, {"top-rail"})[1].w = Inch(66)

\* ---- elevation direction arrow
C21_Arrows(i) ==
    SelectSeq(scene, LAMBDA p : p.role = "direction-arrow" /\ p.panel = i)

\* C21: in the elevation the direction arrow of every Sliding Door panel of
\* positive width points toward the side the panel slides to: its head is
\* left of its tail for "Left" and right of its tail for "Right".
C21_ArrowTowardSlideSide ==
    (Done("elevation") /\ result.success) =>
        \A i \in Indices("Sliding Door") :
            ExpectedWidth(i) > 0 =>
                /\ Len(C21_Arrows(i)) = 1
                /\ IF SlidingDir(i) = "Left"
                   THEN C21_Arrows(i)[1].headx < C21_Arrows(i)[1].tailx
                   ELSE C21_Arrows(i)[1].headx > C21_Arrows(i)[1].tailx

\* the same for the Sliding Door panels wider than 15 inches
C21_ArrowOfWideDoors ==
    (Done("elevation") /\ result.success) =>
        \A i \in Indices("Sliding Door") :
            ExpectedWidth(i) > 15 =>
                /\ Len(C21_Arrows(i)) = 1
                /\ IF SlidingDir(i) = "Left"
                   THEN C21_Arrows(i)[1].headx < C21_Arrows(i)[1].tailx
                   ELSE C21_Arrows(i)[1].headx > C21_Arrows(i)[1].tailx

\* ---- elevation annotations
\* the annotations (texts and arrows) of panel i that lie below the opening
C22_BelowPanel(i) ==
    SelectSeq(scene, LAMBDA p : /\ p.kind \in {"text", "arrow"}
                                /\ p.panel = i
                                /\ IF p.kind = "text" THEN p.y < 0 ELSE p.heady < 0 /\ p.taily < 0)

C22_Labels(i) == SelectSeq(scene, LAMBDA p : p.role = "panel-label" /\ p.panel = i)

\* the part of C22 about the number labels and the overall width dimension:
\* one label per panel above the opening, one overall width dimension 12"
\* above the frame, one height dimension left of the frame
C22_LabelsAndOverallDims ==
    (Done("elevation") /\ result.success) =>
        /\ \A i \in 1..NPanels :
              /\ Len(C22_Labels(i)) = 1
              /\ C22_Labels(i)[1].text = ToString(i)
              /\ C22_Labels(i)[1].y > Inch(result.height)
        /\ Count({"overall-width-dim"}) = 1
        /\ OfRole({"overall-width-dim"})[1].heady = Inch(result.height) + Inch(12)
        /\ OfRole({"overall-width-dim"})[1].taily = Inch(result.height) + Inch(12)
        /\ Count({"height-dim"}) = 1
        /\ OfRole({"height-dim"})[1].headx < 0
        /\ OfRole({"height-dim"})[1].tailx = OfRole({"height-dim"})[1].headx

\* C22: in the elevation every panel gets a number label above the opening
\* and its own width dimension annotation below it, and exactly one overall
\* width dimension and one height dimension are added per opening, each
\* offset 12" outside the frame.
C22_PanelAndOverallDimensions ==
    (Done("elevation") /\ result.success) =>
        /\ \A i \in 1..NPanels :
              /\ Len(C22_Labels(i)) = 1
              /\ C22_Labels(i)[1].y > Inch(result.height)
              /\ Len(C22_BelowPanel(i)) >= 1
        /\ Count({"overall-width-dim"}) = 1
        /\ OfRole({"overall-width-dim"})[1].heady = Inch(result.height) + Inch(12)
        /\ Count({"height-dim"}) = 1
        /\ OfRole({"height-dim"})[1].headx = 0 - Inch(12)

\* ---- fixed panel markers of the plan view
C23_Labels == OfRole({"marker-label"})

\* C23: in the plan scene of an opening the k-th Fixed panel in input order
\* is labelled "Fk", so that the marker labels of the scene are distinct,
\* with or without a Corner splitting the opening into two segments.
C23_MarkersNumberedPerOpening ==
    (Done("plan") /\ result.success) =>
        /\ Len(C23_Labels) = Cardinality(Indices("Fixed"))
        /\ \A k \in 1..Len(C23_Labels) : C23_Labels[k].text = "F" \o ToString(k)

\* the same for the openings without a Corner
C23_MarkersWithoutCorner ==
    (Done("plan") /\ result.success /\ Indices("Corner") = {}) =>
        /\ Len(C23_Labels) = Cardinality(Indices("Fixed"))
        /\ \A k \in 1..Len(C23_Labels) : C23_Labels[k].text = "F" \o ToString(k)

\* ---- sliding leaf of the plan view
Min2(a, b) == IF a <= b THEN a ELSE b

Max2(a, b) == IF a >= b THEN a ELSE b

FirstOf(S) == IF S = {} THEN 0 ELSE CHOOSE i \in S : \A j \in S : i <= j

\* the first Corner of the opening (0: none), and the segment and the
\* position in it of panel i of an opening drawn by the corner routines
FirstCorner == FirstOf(Indices("Corner"))

SegOf(i) == IF i < FirstCorner THEN "first" ELSE "second"

IdxInSeg(i) == IF i < FirstCorner THEN i ELSE i - FirstCorner

\* where panel i begins along its wall run, in twentieths
StartInRun(i) ==
    IF FirstCorner = 0 \/ i < FirstCorner THEN Inch(LeftOf(i))
    ELSE Inch(LeftOf(i)) - Inch(LeftOf(FirstCorner + 1))

\* the primitives of the given roles that belong to panel i
OfPanel(roles, i) ==
    SelectSeq(scene, LAMBDA p : /\ p.role \in roles
                                /\ IF FirstCorner = 0 THEN p.panel = i
                                   ELSE p.seg = SegOf(i) /\ p.panel = IdxInSeg(i))

\* the extent <<from, to>> of a leaf rectangle along the wall run of panel i
AlongRun(r, i) ==
    IF FirstCorner = 0 \/ i < FirstCorner THEN <<r.x, r.x + r.w>>
    ELSE <<r.y, r.y + r.h>>

\* an opening without Swing Door whose first Sliding Door is panel d
C24_Case(d) ==
    /\ Done("plan")
    /\ result.success
    /\ Indices("Swing Door") = {}
    /\ d = FirstOf(Indices("Sliding Door"))
    /\ Cardinality(Indices("Corner")) <= 1
    /\ ExpectedWidth(d) > 2 * frame_depth

\* the part of the leaf of door d that lies over the door's own clear span
C24_Overlap(d) ==
    LET leaf == AlongRun(OfPanel({"sliding-leaf"}, d)[1], d)
        lo == StartInRun(d) + Inch(frame_depth)
        hi == StartInRun(d) + Inch(ExpectedWidth(d)) - Inch(frame_depth)
    IN  Max2(0, Min2(leaf[2], hi) - Max2(leaf[1], lo))

C24_Length(d) == Inch(ExpectedWidth(d)) - 2 * Inch(frame_depth)

C25_OtherSegment(d) ==
    IF d < FirstCorner THEN (FirstCorner + 1)..NPanels ELSE 1..(FirstCorner - 1)

C25_FirstDoor == FirstOf(IF Indices("Swing Door") # {} THEN Indices("Swing Door")
                         ELSE Indices("Sliding Door"))

\* C25: the plan view of an opening with one Corner panel shows exactly one
\* door leaf, however many Swing Door and Sliding Door panels the two
\* segments hold, and the segment without the selected (first) door shows no
\* door leaf.
C25_OneLeafPerCornerOpening ==
    (Done("plan") /\ result.success /\ Cardinality(Indices("Corner")) = 1) =>
        /\ Count({"door-leaf", "sliding-leaf"}) = 1
        /\ \A i \in C25_OtherSegment(C25_FirstDoor) :
              Len(OfPanel({"door-leaf", "sliding-leaf"}, i)) = 0

\* what the segment routines do: in an opening with a Swing Door every Swing
\* Door panel of either segment has a leaf and no Sliding Door has one; in an
\* opening without Swing Door every Sliding Door of the first door's segment
\* has a leaf and the other segment has none
C25_LeavesDrawn ==
    (Done("plan") /\ result.success /\ Cardinality(Indices("Corner")) = 1) =>
        \A i \in 1..NPanels :
            Len(OfPanel({"door-leaf", "sliding-leaf"}, i))
                = IF Indices("Swing Door") # {}
                  THEN (IF ExpectedType(i) = "Swing Door" THEN 1 ELSE 0)
                  ELSE (IF ExpectedType(i) = "Sliding Door"
                           /\ i \notin C25_OtherSegment(C25_FirstDoor) THEN 1 ELSE 0)

\* ---- where the two segments of a corner plan begin
\* one Corner, with panels before and after it
C26_Case ==
    /\ Done("plan")
    /\ result.success
    /\ Cardinality(Indices("Corner")) = 1
    /\ 1 < FirstCorner /\ FirstCorner < NPanels
    /\ \A i \in 1..NPanels : ExpectedWidth(i) > 0

\* C26 (as stated): the first segment is laid out horizontally, the second
\* vertically, and the point at which the first panel of the first segment
\* begins is the point at which the first panel of the second segment begins.
C26_SegmentsShareOrigin ==
    C26_Case =>
        LET h == RunOf("first")
            v == RunOf("second")
        IN  /\ h[2] = h[4] /\ h[1] < h[3]
            /\ v[1] = v[3] /\ v[2] < v[4]
            /\ <<h[1], h[2]>> = <<v[1], v[2]>>

\* C26 (amended): the first segment is laid out horizontally from (0, 0) to
\* (W1, 0), W1 the sum of its widths, and the second segment vertically from
\* (W1, 0) to (W1, W2): the second segment begins at the point where the first
\* one ends, not where it begins; the two share the start coordinate 0 along
\* their own axis.
C26_SecondStartsAtEndOfFirst ==
    C26_Case =>
        LET W1 == Inch(LeftOf(FirstCorner))
            W2 == Inch(LeftOf(NPanels + 1)) - Inch(LeftOf(FirstCorner + 1))
        IN  /\ RunOf("first") = <<0, 0, W1, 0>>
            /\ RunOf("second") = <<W1, 0, W1, W2>>

C26_Witness ==
    /\ C26_Case
    /\ RawSeq = <<RawSwing30, RawCorner12, RawFixed36>>
    /\ RunOf("first") = <<0, 0, Inch(30), 0>>
    /\ RunOf("second") = <<Inch(30), 0, Inch(30), Inch(36)>>

\* ---- per-panel treatment of the non-corner plan view
C27_N(roles, i) == Len(OfPanel(roles, i))

C27_FixedTreatment(i) ==
    /\ C27_N({"glass-line"}, i) = 2
    /\ C27_N({"glass-centre-line"}, i) = 1
    /\ C27_N({"marker"}, i) = 1
    /\ C27_N({"marker-label"}, i) = 1

C27_SwingTreatment(i) ==
    /\ C27_N({"opening-clear"}, i) = 1
    /\ C27_N({"jamb"}, i) = 2 * Len(frame_lines)
    /\ C27_N({"door-leaf"}, i) = 1
    /\ C27_N({"swing-arc"}, i) = 1

C27_SlidingTreatment(i) ==
    /\ C27_N({"opening-clear"}, i) = 1
    /\ C27_N({"jamb"}, i) = 2 * Len(frame_lines)
    /\ C27_N({"sliding-leaf"}, i) = 1
    /\ C27_N({"track"}, i) = 2
    /\ C27_N({"direction-arrow"}, i) = 1

\* nothing of panel i but its dimension line
C27_NoTreatment(i) ==
    \A k \in 1..Len(scene) :
        scene[k].panel = i => scene[k].role \in {"panel-dim", "panel-dim-text", "wall-end"}

\* C27: in a successful non-corner plan view every panel contributes the
\* treatment of its type: a Fixed panel three glass lines and a marker, a
\* Swing Door its cleared opening, jambs, leaf and swing arc, a Sliding Door
\* its cleared opening, jambs, leaf, two track lines and direction arrow; an
\* opening with a Swing Door and a Sliding Door shows both doors.
C27_EveryPanelTreated ==
    (Done("plan") /\ result.success /\ Indices("Corner") = {}) =>
        \A i \in 1..NPanels :
            /\ ExpectedType(i) = "Fixed" => C27_FixedTreatment(i)
            /\ ExpectedType(i) = "Swing Door" => C27_SwingTreatment(i)
            /\ ExpectedType(i) = "Sliding Door" => C27_SlidingTreatment(i)

\* what the two routines do: Fixed panels are always treated; with a Swing
\* Door in the opening the swing routine treats the Swing Doors and draws
\* nothing for a Sliding Door; without one the sliding routine treats the
\* Sliding Doors
C27_TreatmentByRoutine ==
    (Done("plan") /\ result.success /\ Indices("Corner") = {}) =>
        \A i \in 1..NPanels :
            /\ ExpectedType(i) = "Fixed" => C27_FixedTreatment(i)
            /\ ExpectedType(i) = "Swing Door" => C27_SwingTreatment(i)
            /\ ExpectedType(i) = "Sliding Door" =>
                  IF Indices("Swing Door") = {} THEN C27_SlidingTreatment(i)
                  ELSE C27_NoTreatment(i)

\* ---- hinge side of the swing doors
SwingDirOf(i) == Get(RawSeq[i], "swingDirection", "Right In")

\* the position along the wall run of the hinge of panel i
C28_HingeAlong(i) ==
    LET hinge == OfPanel({"hinge"}, i)[1]
    IN  IF FirstCorner = 0 \/ i < FirstCorner THEN hinge.x ELSE hinge.y

\* the plan hinge of panel i is at its left jamb (the jamb at the start of
\* the wall run) exactly when the panel's own swing_direction contains "Left"
C28_PlanHingeByOwnDirection(i) ==
    /\ Len(OfPanel({"hinge"}, i)) = 1
    /\ C28_HingeAlong(i) = IF Contains(SwingDirOf(i), "Left")
                           THEN StartInRun(i) + Inch(frame_depth)
                           ELSE StartInRun(i) + Inch(ExpectedWidth(i)) - Inch(frame_depth)

\* the elevation handle of panel i is at the right stile exactly when the
\* panel's own swing_direction contains "Left"
C28_ElevationHandleByOwnDirection(i) ==
    LET handles == SelectSeq(scene, LAMBDA p : p.role = "handle" /\ p.panel = i)
    IN  /\ Len(handles) = 1
        /\ handles[1].x0 = IF Contains(SwingDirOf(i), "Left")
                           THEN Inch(LeftOf(i + 1)) - Inch(SWING_STILE) - Inch(HANDLE_LENGTH)
                           ELSE Inch(LeftOf(i)) + Inch(SWING_STILE)

\* C28: for every Swing Door panel the plan view places the hinge by that
\* panel's own swing_direction (left jamb iff it contains "Left") and the
\* elevation the handle on the opposite side by the same direction, so the
\* two views agree panel by panel, also with several swing doors of
\* different directions.
C28_HingePerPanel ==
    /\ (Done("plan") /\ result.success /\ Cardinality(Indices("Corner")) <= 1) =>
          \A i \in Indices("Swing Door") : C28_PlanHingeByOwnDirection(i)
    /\ (Done("elevation") /\ result.success) =>
          \A i \in Indices("Swing Door") : C28_ElevationHandleByOwnDirection(i)

\* the elevation follows each panel's own direction; the plan follows the
\* direction of the first Swing Door of the opening for every Swing Door
C28_HingeByFirstDoor ==
    /\ (Done("plan") /\ result.success /\ Cardinality(Indices("Corner")) <= 1) =>
          \A i \in Indices("Swing Door") :
              /\ Len(OfPanel({"hinge"}, i)) = 1
              /\ C28_HingeAlong(i)
                    = IF Contains(SwingDirOf(FirstOf(Indices("Swing Door"))), "Left")
                      THEN StartInRun(i) + Inch(frame_depth)
                      ELSE StartInRun(i) + Inch(ExpectedWidth(i)) - Inch(frame_depth)
    /\ (Done("elevation") /\ result.success) =>
          \A i \in Indices("Swing Door") : C28_ElevationHandleByOwnDirection(i)

\* ---- swing leaf and swing arc
\* the direction, in degrees, in which a leaf rectangle runs from its hinge:
\* the rotated direction of its long side
C29_LeafDirection(r) == IF r.w >= r.h THEN r.angle % 360 ELSE (r.angle + 90) % 360

C29_LeafLength(r) == Max2(r.w, r.h)

\* the leaf of panel i starts at the centre of the panel's arc, runs along
\* one of the arc's two end angles and is as long as the arc's radius
C29_LeafOnArcRadius(i) ==
    /\ Len(OfPanel({"door-leaf"}, i)) = 1
    /\ Len(OfPanel({"swing-arc"}, i)) = 1
    /\ LET leaf == OfPanel({"door-leaf"}, i)[1]
           arc == OfPanel({"swing-arc"}, i)[1]
       IN  /\ <<leaf.x, leaf.y>> = <<arc.x, arc.y>>
           /\ C29_LeafDirection(leaf) \in {arc.theta1 % 360, arc.theta2 % 360}
           /\ C29_LeafLength(leaf) = arc.r
           /\ arc.r = Inch(ExpectedWidth(i)) - 2 * Inch(frame_depth)

\* C29: for every Swing Door drawn in plan view, in the horizontal and in the
\* vertical routine and for both hinge sides, the leaf starts at the hinge,
\* runs along one of the two bounding radii of the swing arc and is as long
\* as the arc radius w - 2 * frame_depth.
C29_LeafAlongArcRadius ==
    (Done("plan") /\ result.success /\ Cardinality(Indices("Corner")) <= 1) =>
        \A i \in Indices("Swing Door") : C29_LeafOnArcRadius(i)

\* the same for the Swing Doors of a horizontal run, and for those of the
\* vertical run when the hinge is not on the "Left" side
C29_LeafAlongArcRadiusButVerticalLeft ==
    (Done("plan") /\ result.success /\ Cardinality(Indices("Corner")) <= 1) =>
        \A i \in Indices("Swing Door") :
            (\/ FirstCorner = 0
             \/ i < FirstCorner
             \/ ~Contains(SwingDirOf(FirstOf(Indices("Swing Door"))), "Left"))
                => C29_LeafOnArcRadius(i)

\* ---- the two hardware classifiers
\* the texts the quote-side classifier keeps of raw panel i
C30_QuoteNames(i) ==
    LET items == QuotePanelHardware(RawSeq[i], <<>>)
    IN  {items[k].name : k \in 1..Len(items)}

\* the options the drawing generator resolved for panel i
C30_Resolved(i) == {panels[i].hardware_options[k] : k \in 1..Len(panels[i].hardware_options)}

\* C30: every resolved option that the quote-side classifier accepts (its
\* category name contains hardware, handle, lock or hinge in any letter case)
\* is accepted by the schedule classifier too: each hardware text of a quote
\* item and of the package generator's own schedule passes the schedule
\* classifier, and the drawing generator's schedule shows each resolved
\* option that the quote side keeps for the same panel.
C30_QuoteHardwareIsScheduleHardware ==
    /\ Done("quote") =>
          \A q \in 1..Len(result.quoteItems) :
              LET hardware == result.quoteItems[q].hardware
              IN  hardware # <<"Standard Hardware">> =>
                      \A k \in 1..Len(hardware) : IsHardwareOption(hardware[k])
    /\ (Done("package_schedule") /\ "rows" \in DOMAIN result) =>
          \A i \in 1..Len(result.rows) :
              result.rows[i][5] # "Standard" => IsHardwareOption(result.rows[i][5])
    /\ (Done("elevation") /\ result.success) =>
          \A i \in 1..NPanels :
              \A n \in C30_QuoteNames(i) \cap C30_Resolved(i) :
                  /\ IsHardwareOption(n)
                  /\ Contains(result.door_schedule.rows[i][6], n)

\* an opening of a Handle panel and a Track panel: the schedule lists the
\* option of each, the quote side keeps the Handle option only
C30_Witness ==
    /\ Done("elevation")
    /\ RawSeq = <<HardwarePanel("Handle", "Lever"), HardwarePanel("Track", "Lever")>>
    /\ result.success
    /\ result.door_schedule.rows[1][6] = "Handle: Lever"
    /\ result.door_schedule.rows[2][6] = "Track: Lever"
    /\ C30_QuoteNames(1) = {"Handle: Lever"}
    /\ C30_QuoteNames(2) = {}

\* the converse inclusion: every option the schedule shows is kept by the
\* quote side
C30_ScheduleHardwareIsQuoteHardware ==
    (Done("elevation") /\ result.success) =>
        \A i \in 1..NPanels :
            \A n \in C30_Resolved(i) : IsHardwareOption(n) => n \in C30_QuoteNames(i)

C30_QuoteWitness ==
    /\ Done("quote")
    /\ RawSeq = <<HardwarePanel("LOCKSET", "Pull Bar"), HardwarePanel("Finish", "Pull Bar")>>
    /\ result.quoteItems[1].hardware = <<"LOCKSET: Pull Bar">>

====
